---- MODULE Spec2Model ----
(***************************************************************************)
(* Model of the VDL device-communication library.                          *)
(*                                                                         *)
(* Part 1: device_impl_t (include/vdl/device/device_impl.hpp) driving a    *)
(* Transport (include/vdl/transport/transport.hpp, mock_transport.hpp)     *)
(* through the binary codec (include/vdl/codec/binary_codec.hpp).          *)
(*                                                                         *)
(* One caller thread drives the device; every public method is modelled as *)
(* a sequence of steps, one step per Transport call or loop iteration, and *)
(* "pc" is the caller's position inside the method.  The Transport is the  *)
(* environment: each call of open/read/write picks one of the outcomes the *)
(* Transport contract allows.                                              *)
(***************************************************************************)
EXTENDS Integers, Sequences, FiniteSets, TLC

(***************************************************************************)
(* Bounds of the model                                                     *)
(***************************************************************************)
\* largest max_retries a configuration is given
MaxRetriesBound == 2
\* the codec's m_max_frame_size, scaled down
MaxFrameSize == 8
\* most bytes the Transport holds ready to be read
MaxRx == 9
\* capacity of the CircularBuffer that is exercised on its own
RingCap == 4
\* threads the heartbeat runner can have at a time
MaxWorkers == 2
\* largest max_retries where the delays between attempts are followed
MaxDelayRetries == 3
\* low bits that are kept of the 64-bit counters of the heartbeat runner
CountBits == 1

(***************************************************************************)
(* Program constants                                                       *)
(***************************************************************************)
SOF == 170
HEADER_SIZE == 4
CRC_SIZE == 2
MIN_FRAME_SIZE == 6
\* size of the "temp" read chunk of _read_response
TempSize == 1024
\* '\n' and '\r'
LF == 10
CR == 13
\* values of a uint8_t (m_failure_count)
UINT8_RANGE == 256

Min(a, b) == IF a < b THEN a ELSE b
Max(a, b) == IF a > b THEN a ELSE b

Ok(v) == [ok |-> TRUE, val |-> v]
Err(e) == [ok |-> FALSE, err |-> e]

(***************************************************************************)
(* binary_frame::crc16 : CRC16-CCITT, polynomial 0x1021, initial 0xFFFF    *)
(***************************************************************************)
\* bit i of a
Bit(a, i) == (a \div (2 ^ i)) % 2

\* a ^ b on four bits
XorNibble ==
    [a \in 0..15, b \in 0..15 |->
        ((Bit(a, 0) + Bit(b, 0)) % 2)
        + 2 * ((Bit(a, 1) + Bit(b, 1)) % 2)
        + 4 * ((Bit(a, 2) + Bit(b, 2)) % 2)
        + 8 * ((Bit(a, 3) + Bit(b, 3)) % 2)]

\* a ^ b on uint16_t, four bits at a time
Xor16(a, b) ==
    XorNibble[a % 16, b % 16]
    + 16 * XorNibble[(a \div 16) % 16, (b \div 16) % 16]
    + 256 * XorNibble[(a \div 256) % 16, (b \div 256) % 16]
    + 4096 * XorNibble[(a \div 4096) % 16, (b \div 4096) % 16]

\* one iteration of the inner loop: shift left, xor the polynomial on carry
CrcShift(crc) ==
    IF crc >= 32768 THEN Xor16((crc * 2) % 65536, 4129)
    ELSE (crc * 2) % 65536

\* one iteration of the inner loop, with crc computed once
CrcStep(crc) == CHOOSE y \in {CrcShift(c) : c \in {crc}} : TRUE

\* the inner loop: eight iterations
CrcShift8(c0) ==
    CrcStep(CrcStep(CrcStep(CrcStep(CrcStep(CrcStep(CrcStep(CrcStep(c0))))))))

\* the body of the outer loop for one byte
CrcByte(crc, byte) == CrcShift8(Xor16(crc, (byte * 256) % 65536))

\* the outer loop over bytes lo..hi of data, in order, starting from crc; the
\* first half of the range is computed before the second half is entered
RECURSIVE CrcRange(_, _, _, _)
CrcRange(data, lo, hi, crc) ==
    IF lo > hi THEN crc
    ELSE IF lo = hi
    THEN CHOOSE y \in {CrcByte(c, data[lo]) : c \in {crc}} : TRUE
    ELSE CHOOSE y \in
            {CrcRange(data, ((lo + hi) \div 2) + 1, hi, left) :
                left \in {CrcRange(data, lo, (lo + hi) \div 2, crc)}} : TRUE

\* crc16(data, len): CRC of the first len bytes of data
crc16(data, len) == CrcRange(data, 1, len, 65535)

(***************************************************************************)
(* binary_codec_t                                                          *)
(***************************************************************************)
\* bytes (1-based sequence) of a frame with the given LEN field, function
\* code and payload, CRC appended little-endian
FrameBytes(data_len, fc, data) ==
    LET head == <<SOF, data_len % 256, (data_len \div 256) % 256, fc>> \o data
        crc  == crc16(head, Len(head))
    IN  head \o <<crc % 256, (crc \div 256) % 256>>

\* binary_codec_t::encode of a codec whose m_max_frame_size is max_frame_size
binary_encode(cmd, max_frame_size) ==
    LET data_len  == Len(cmd.data)
        frame_len == HEADER_SIZE + data_len + CRC_SIZE
    IN  IF frame_len > max_frame_size
        THEN Err("frame_too_large")
        ELSE Ok(FrameBytes(data_len, cmd.fc, cmd.data))

\* encode of the device's codec
encode(cmd) == binary_encode(cmd, MaxFrameSize)

\* the search for SOF giving up after one byte
SofPos_one_byte(buffer, pos) ==
    IF pos < Len(buffer) /\ buffer[pos + 1] # SOF THEN pos + 1 ELSE pos

\* position (0-based) of the first SOF in buffer, Len(buffer) if none
RECURSIVE SofPos(_, _)
SofPos(buffer, pos) ==
    IF pos < Len(buffer) /\ buffer[pos + 1] # SOF
    THEN SofPos(buffer, pos + 1)
    ELSE pos

\* binary_codec_t::decode of a codec whose m_max_frame_size is
\* max_frame_size: the result and the out-parameter "consumed"
binary_decode(buffer, max_frame_size) ==
    IF Len(buffer) < MIN_FRAME_SIZE
    THEN [res |-> Err("incomplete_frame"), consumed |-> 0]
    ELSE IF SofPos(buffer, 0) > 0
    THEN [res |-> Err("invalid_frame"), consumed |-> SofPos(buffer, 0)]
    ELSE LET data_len  == buffer[2] + 256 * buffer[3]
             frame_len == HEADER_SIZE + data_len + CRC_SIZE
         IN  IF Len(buffer) < frame_len
             THEN [res |-> Err("incomplete_frame"), consumed |-> 0]
             ELSE IF frame_len > max_frame_size
             THEN [res |-> Err("frame_too_large"), consumed |-> 1]
             ELSE IF crc16(buffer, frame_len - 2)
                        # buffer[frame_len - 1] + 256 * buffer[frame_len]
             THEN [res |-> Err("checksum_error"), consumed |-> 1]
             ELSE [res |-> Ok([fc   |-> buffer[4],
                               data |-> SubSeq(buffer, 5, 4 + data_len)]),
                   consumed |-> frame_len]

\* decode of the device's codec
decode(buffer) == binary_decode(buffer, MaxFrameSize)

\* frame_length with no check of the start byte
frame_length_any_start(buffer) ==
    IF Len(buffer) < 3 THEN 0
    ELSE HEADER_SIZE + (buffer[2] + 256 * buffer[3]) + CRC_SIZE

\* binary_codec_t::frame_length
frame_length(buffer) ==
    IF Len(buffer) < 3 THEN 0
    ELSE IF buffer[1] # SOF THEN 0
    ELSE HEADER_SIZE + (buffer[2] + 256 * buffer[3]) + CRC_SIZE

(***************************************************************************)
(* Inputs                                                                  *)
(***************************************************************************)
\* device_config_t values given to set_config
ConfigSet ==
    [max_retries : 0..MaxRetriesBound,
     auto_reconnect : BOOLEAN,
     reconnect_on_timeout : BOOLEAN,
     retry_delay : {0},
     reconnect_delay : {0},
     backoff_multiplier : {2},
     max_reconnect_delay : {0}]

\* device_config_t values with delays, in milliseconds, and whole backoff
\* multipliers; reconnect_delay is below, at and above max_reconnect_delay
DelayConfigs ==
    [max_retries : 0..MaxDelayRetries,
     auto_reconnect : {TRUE},
     reconnect_on_timeout : {TRUE},
     retry_delay : {0, 2},
     reconnect_delay : {0, 1, 5},
     backoff_multiplier : {1, 2},
     max_reconnect_delay : {3}]

\* a payload too long for the codec
LongData == [i \in 1..(MaxFrameSize - 5) |-> 0]

\* commands given to execute()
CmdSet ==
    {[fc |-> 3, data |-> <<>>], [fc |-> 5, data |-> <<1>>],
     [fc |-> 7, data |-> LongData]}

\* a frame whose last CRC byte is wrong
BadCrcFrame ==
    [i \in 1..6 |-> IF i = 6 THEN (FrameBytes(0, 3, <<>>)[6] + 1) % 256
                    ELSE FrameBytes(0, 3, <<>>)[i]]

\* the longest payload a frame of the codec carries
FullData == [i \in 1..(MaxFrameSize - MIN_FRAME_SIZE) |-> 2]

\* responses of the peer, and their frames
ValidResponses ==
    {[fc |-> 3, data |-> <<>>], [fc |-> 5, data |-> <<1>>],
     [fc |-> 6, data |-> FullData]}

\* the wire frame of response r
FrameOf(r) == FrameBytes(Len(r.data), r.fc, r.data)

\* complete valid response frames
ValidFrames == {FrameOf(r) : r \in ValidResponses}

\* more bytes than a frame of the codec has, none of them a SOF
Garbage == [i \in 1..(MaxFrameSize + 1) |-> 255]

\* a byte that is no SOF and after it a complete valid frame
StrayThenFrame == <<255>> \o FrameOf([fc |-> 3, data |-> <<>>])

\* byte strings that never form a valid frame, or not at their start
MalformedSet ==
    {<<255, 255>>, BadCrcFrame, <<SOF, 255, 0>>, Garbage, StrayThenFrame}

\* a complete valid frame and after it the first bytes of another
FrameThenMore == FrameOf([fc |-> 3, data |-> <<>>]) \o <<SOF, 0>>

\* byte strings the peer sends (mock_transport_t::set_response)
ResponseSet == ValidFrames \cup MalformedSet \cup {FrameThenMore}

\* error codes a failing Transport::write reports
WriteErrors == {"write_failed", "io_error", "timeout"}

\* error codes a failing Transport::read reports
ReadErrors == {"read_failed", "connection_closed", "not_connected"}

(***************************************************************************)
(* State                                                                   *)
(***************************************************************************)
VARIABLES
    m_state,        \* device_impl_t::m_state
    m_config,       \* device_impl_t::m_config
    m_is_open,      \* the Transport's open flag
    m_read_buffer,  \* bytes the Transport holds ready to be read
    pc,             \* position of the caller inside the public method
    op,             \* the public method being executed
    frame,          \* execute: the encoded frame
    attempt,        \* execute: loop variable
    last_error,     \* execute: last_error
    total_written,  \* write_all: total_written
    buffer,         \* _read_response: the reassembly ring buffer
    rc_attempt,     \* _try_reconnect: loop variable
    ret,            \* the value the method returned
    pre_state,      \* m_state when the method was called
    pre_open,       \* Transport open flag when the method was called
    pre_rx,         \* readable bytes when the method was called
    opens,          \* Transport::open calls made by this method call
    closes,         \* Transport::close calls made by this method call
    write_alls,     \* Transport::write_all calls made by this method call
    read_called,    \* Transport::read was called by this method call
    events,         \* reconnect events emitted by this method call
    write_fails,    \* failed Transport::write_all calls of this method call
    read_faults,    \* failed Transport::read calls of this method call
    last_fail,      \* how the latest failed execute attempt failed
    exec_cmd,       \* the command execute() was called with
    split_read,     \* a Transport::read of this call left bytes pending
    current_delay,  \* _try_reconnect: current_delay
    sleeps,         \* the sleep_for calls made by this method call
    prev_delay      \* current_delay when the latest reconnect episode ended

devVars == <<m_state, m_config>>
trVars == <<m_is_open, m_read_buffer>>
locVars == <<frame, attempt, last_error, total_written, buffer, rc_attempt>>
obsVars == <<pre_state, pre_open, pre_rx, opens, closes, write_alls,
             read_called, events, write_fails, read_faults, last_fail>>
delayVars == <<current_delay, sleeps, prev_delay>>
\* everything the device and its Transport consist of
deviceVars ==
    <<devVars, trVars, pc, op, locVars, ret, obsVars, exec_cmd, split_read,
      delayVars>>

\* a binary_codec_t exercised on its own
VARIABLES
    c_max,          \* codec_base_t::m_max_frame_size
    c_cmd,          \* the command given to encode: function code, first
                    \* payload bytes, number of zero bytes after them
    c_buf,          \* the bytes given to decode and frame_length as they are
    c_enc,          \* what encode returned, a frame by its length
    c_dec,          \* what decode returned, with "consumed"
    c_flen,         \* what frame_length returned
    c_pc            \* what has been called so far

codecVars == <<c_max, c_cmd, c_buf, c_enc, c_dec, c_flen, c_pc>>

\* a CircularBuffer exercised on its own
VARIABLES
    rb,             \* the CircularBuffer: buffer_, write_pos_, read_pos_,
                    \* data_size_
    rb_out,         \* the bytes the last read or peek copied out
    rb_ret,         \* what the last write, read or peek returned
    rb_op,          \* the last operation called
    rb_twin,        \* a CircularBuffer given the same calls, but peek and
                    \* skip wherever rb is given read
    rb_twin_out,    \* the bytes the twin's last read or peek copied out
    rb_fifo,        \* the bytes accepted and not yet consumed, oldest first
    rb_want         \* what a bounded FIFO queue returns for the last call

ringVars ==
    <<rb, rb_out, rb_ret, rb_op, rb_twin, rb_twin_out, rb_fifo, rb_want>>

\* a heartbeat_runner_t, its controlling thread and its worker threads
VARIABLES
    m_strategy,         \* TRUE iff the runner was given a strategy
    m_running,
    m_paused,
    m_stop_requested,
    m_thread,           \* the thread m_thread owns, 0 if none
    hb_pc,              \* where each thread is in _run_loop
    hb_ctl,             \* where the controlling thread is
    hb_op,              \* the last call the controlling thread finished
    hb_ret,             \* what it returned
    hb_tick,            \* flips whenever a call of the controlling thread
                        \* returns
    hb_cb,              \* the event that call gave to _trigger_callback
    hb_config,          \* the runner's m_config: max_failures and
                        \* auto_reset_failures
    m_failure_count,
    m_success_count,    \* the low CountBits bits of it
    m_total_failures,   \* the low CountBits bits of it
    m_mutex,            \* the thread that holds m_mutex, 0 if none
    hb_loc,             \* the locals of each thread in _run_loop
    hb_cycles,          \* heartbeat cycles classified so far, modulo CycleMod
    hb_events,          \* the events the latest cycle gave to
                        \* _trigger_callback
    hb_all_failed,      \* TRUE iff no cycle has succeeded so far
    hb_access           \* the latest access to m_config, m_callback or
                        \* m_last_error

\* a Device that the heartbeat worker and a foreground caller use at the
\* same time
VARIABLES
    cx_state,           \* device_impl_t::m_state
    cx_open,            \* the Transport's open flag
    cx_wire,            \* frames written to the Transport that the peer has
                        \* not answered yet
    cx_rx,              \* bytes the Transport holds ready to be read
    cx_pc,              \* where each thread is in execute()
    cx_cmd,             \* the command each thread called execute() with
    cx_buffer,          \* _read_response: the ring buffer of each thread
    cx_ret              \* what execute() returned to each thread

concVars ==
    <<cx_state, cx_open, cx_wire, cx_rx, cx_pc, cx_cmd, cx_buffer, cx_ret>>

runnerVars ==
    <<m_strategy, m_running, m_paused, m_stop_requested, m_thread, hb_pc,
      hb_ctl, hb_op, hb_ret, hb_tick, hb_cb, hb_config, m_failure_count,
      m_success_count, m_total_failures, m_mutex, hb_loc, hb_cycles,
      hb_events, hb_all_failed, hb_access>>

\* the text interface of the Device (write, read, query)
VARIABLES
    txt_cmd,            \* the command text query() was called with
    txt_written,        \* bytes the Transport accepted during the call
    txt_reads           \* calls of read() made during the call

textVars == <<txt_cmd, txt_written, txt_reads>>

hbVars == <<runnerVars, concVars, textVars>>

\* state of the components that are exercised on their own
auxVars == <<codecVars, ringVars, hbVars>>

vars == <<deviceVars, auxVars>>

\* nothing has been returned; the value of a result_t<void>
NoRet == [ok |-> TRUE, val |-> [none |-> TRUE]]
NoFail == [stage |-> "none", err |-> "ok"]
OkVoid == Ok([void |-> TRUE])
NoCmd == [fc |-> 0, data |-> <<>>]
NoDec == [res |-> NoRet, consumed |-> 0]
NoCodecCmd == [fc |-> 0, head |-> <<>>, pad |-> 0]

\* the codec is not exercised
CodecOff ==
    /\ c_max = MaxFrameSize
    /\ c_cmd = NoCodecCmd
    /\ c_buf = <<>>
    /\ c_enc = NoRet
    /\ c_dec = NoDec
    /\ c_flen = 0
    /\ c_pc = "off"

\* CircularBuffer::CircularBuffer(capacity); the allocated bytes are shown
\* as 0 and are never read before they are written
NewRing ==
    [buffer_ |-> [j \in 0..(RingCap - 1) |-> 0],
     write_pos_ |-> 0, read_pos_ |-> 0, data_size_ |-> 0]

\* nothing has been called on the CircularBuffer
NoWant == [out |-> <<>>, ret |-> 0]

\* a CircularBuffer as constructed
RingNew ==
    /\ rb = NewRing
    /\ rb_out = <<>>
    /\ rb_ret = 0
    /\ rb_op = "new"
    /\ rb_twin = NewRing
    /\ rb_twin_out = <<>>
    /\ rb_fifo = <<>>
    /\ rb_want = NoWant

\* the 64-bit counters are kept modulo CountMod
CountMod == 2 ^ CountBits

\* cycles are counted modulo CycleMod
CycleMod == 3 * CountMod

\* the locals of _run_loop before its first heartbeat
NoLocals ==
    [success |-> FALSE, failures |-> 0, event |-> "none", connected |-> TRUE,
     executed |-> FALSE]

\* nothing has touched m_config, m_callback or m_last_error
NoAccess == [by |-> "none", field |-> "none", kind |-> "none", locked |-> TRUE]

\* heartbeat_runner_t as constructed, nothing called yet
\* the two threads that call execute()
Threads == {"foreground", "heartbeat"}

\* a connected Device no thread is using
ConcNew ==
    /\ cx_state = "connected"
    /\ cx_open = TRUE
    /\ cx_wire = <<>>
    /\ cx_rx = <<>>
    /\ cx_pc = [t \in Threads |-> "idle"]
    /\ cx_cmd = [t \in Threads |-> NoCmd]
    /\ cx_buffer = [t \in Threads |-> <<>>]
    /\ cx_ret = [t \in Threads |-> NoRet]

\* no text has been written or read
TextNew ==
    /\ txt_cmd = <<>>
    /\ txt_written = <<>>
    /\ txt_reads = 0

HbNew ==
    /\ ConcNew
    /\ TextNew
    /\ m_running = FALSE
    /\ m_paused = FALSE
    /\ m_stop_requested = FALSE
    /\ m_thread = 0
    /\ hb_pc = [w \in 1..MaxWorkers |-> "none"]
    /\ hb_ctl = "idle"
    /\ hb_op = "new"
    /\ hb_ret = NoRet
    /\ hb_tick = 0
    /\ hb_cb = "none"
    /\ m_failure_count = 0
    /\ m_success_count = 0
    /\ m_total_failures = 0
    /\ m_mutex = 0
    /\ hb_loc = [w \in 1..MaxWorkers |-> NoLocals]
    /\ hb_cycles = 0
    /\ hb_events = <<>>
    /\ hb_all_failed = TRUE
    /\ hb_access = NoAccess

\* heartbeat_config_t as declared
HbDefaultConfig == [max_failures |-> 3, auto_reset_failures |-> TRUE]

\* a runner that is never started
HbOff == m_strategy = TRUE /\ hb_config = HbDefaultConfig /\ HbNew

\* no component is exercised on its own
AuxOff == CodecOff /\ RingNew /\ HbOff

\* locals hold these values outside the method that owns them
LocIdle ==
    /\ frame = <<>>
    /\ attempt = 0
    /\ last_error = "ok"
    /\ total_written = 0
    /\ buffer = <<>>
    /\ rc_attempt = 0

\* the device after construction, whatever its configuration
DeviceNew ==
    /\ m_state = "disconnected"
    /\ m_is_open = FALSE
    /\ m_read_buffer = <<>>
    /\ pc = "idle"
    /\ op = "none"
    /\ LocIdle
    /\ ret = NoRet
    /\ pre_state = "disconnected"
    /\ pre_open = FALSE
    /\ pre_rx = <<>>
    /\ opens = 0
    /\ closes = 0
    /\ write_alls = 0
    /\ read_called = FALSE
    /\ events = <<>>
    /\ write_fails = 0
    /\ read_faults = 0
    /\ last_fail = NoFail
    /\ exec_cmd = NoCmd
    /\ split_read = FALSE
    /\ current_delay = 0
    /\ sleeps = <<>>
    /\ prev_delay = 0

\* the device after construction
DeviceInit == m_config \in ConfigSet /\ DeviceNew

Init == DeviceInit /\ AuxOff

\* a public method is entered: remember the state it starts from
StartCall(name) ==
    /\ pc = "idle"
    /\ op' = name
    /\ pre_state' = m_state
    /\ pre_open' = m_is_open
    /\ pre_rx' = m_read_buffer
    /\ read_called' = FALSE
    /\ write_fails' = 0
    /\ read_faults' = 0
    /\ last_fail' = NoFail

\* std::max<uint8_t>(1, m_config.max_retries)
max_attempts == Max(1, m_config.max_retries)

\* a call of sleep_for(ms) after the failed attempt number `after`
Sleep(kind, ms, after) == [kind |-> kind, ms |-> ms, after |-> after]

\* execute sleeping between attempts whatever retry_delay is
AfterRetryDelay_sleeps_always(ss, n) ==
    Append(ss, Sleep("retry", m_config.retry_delay, n))

\* execute: if (m_config.retry_delay > 0) sleep_for(retry_delay), after the
\* failed attempt number n
AfterRetryDelay(ss, n) ==
    IF m_config.retry_delay > 0
    THEN Append(ss, Sleep("retry", m_config.retry_delay, n))
    ELSE ss

\* _try_reconnect: if (current_delay > 0) sleep_for(current_delay), after
\* the failed attempt number n
AfterReconnectDelay(ss, d, n) ==
    IF d > 0 THEN Append(ss, Sleep("reconnect", d, n)) ELSE ss

\* the next delay without the limit
NextDelay_unlimited(d) == d * m_config.backoff_multiplier

\* the next delay without the backoff
NextDelay_no_backoff(d) == Min(d, m_config.max_reconnect_delay)

\* _try_reconnect: the next delay; with a whole multiplier and delays this
\* small the conversions to float and back are exact
NextDelay(d) ==
    Min(d * m_config.backoff_multiplier, m_config.max_reconnect_delay)

(***************************************************************************)
(* device_impl_t : connection management                                   *)
(***************************************************************************)
\* is_connected that trusts m_state alone
is_connected_state_only == m_state = "connected"

\* device_impl_t::is_connected
is_connected == m_state = "connected" /\ m_is_open

\* connect without its early return
Connect_always_opens ==
    /\ StartCall("connect")
    /\ opens' = 0 /\ closes' = 0 /\ write_alls' = 0 /\ events' = <<>>
    /\ m_state' = "connecting"
    /\ pc' = "connect_open"
    /\ UNCHANGED <<ret, m_config, trVars, locVars>>
    /\ UNCHANGED <<exec_cmd, split_read, delayVars, auxVars>>

\* device_impl_t::connect, up to the call of Transport::open
Connect ==
    /\ StartCall("connect")
    /\ opens' = 0 /\ closes' = 0 /\ write_alls' = 0 /\ events' = <<>>
    /\ IF m_state = "connected"
       THEN /\ ret' = OkVoid
            /\ pc' = "done"
            /\ UNCHANGED m_state
       ELSE /\ m_state' = "connecting"
            /\ pc' = "connect_open"
            /\ UNCHANGED ret
    /\ UNCHANGED <<m_config, trVars, locVars>>
    /\ UNCHANGED <<exec_cmd, split_read, delayVars, auxVars>>

\* device_impl_t::connect, Transport::open and what follows it
ConnectOpen ==
    /\ pc = "connect_open"
    /\ opens' = opens + 1
    /\ \E opened \in BOOLEAN :
          IF opened
          THEN /\ m_is_open' = TRUE
               /\ m_state' = "connected"
               /\ ret' = OkVoid
          ELSE /\ UNCHANGED m_is_open
               /\ m_state' = "error"
               /\ ret' = Err("connection_failed")
    /\ pc' = "done"
    /\ UNCHANGED <<m_config, m_read_buffer, op, locVars, pre_state, pre_open,
                   pre_rx, closes, write_alls, read_called, events, write_fails,
                   read_faults, last_fail>>
    /\ UNCHANGED <<exec_cmd, split_read, delayVars, auxVars>>

\* disconnect that leaves the Transport as it is
Disconnect_state_only ==
    /\ StartCall("disconnect")
    /\ opens' = 0 /\ closes' = 0 /\ write_alls' = 0 /\ events' = <<>>
    /\ UNCHANGED m_is_open
    /\ m_state' = "disconnected"
    /\ ret' = OkVoid
    /\ pc' = "done"
    /\ UNCHANGED <<m_config, m_read_buffer, locVars>>
    /\ UNCHANGED <<exec_cmd, split_read, delayVars, auxVars>>

\* device_impl_t::disconnect
Disconnect ==
    /\ StartCall("disconnect")
    /\ opens' = 0 /\ closes' = 1 /\ write_alls' = 0 /\ events' = <<>>
    /\ m_is_open' = FALSE
    /\ m_state' = "disconnected"
    /\ ret' = OkVoid
    /\ pc' = "done"
    /\ UNCHANGED <<m_config, m_read_buffer, locVars>>
    /\ UNCHANGED <<exec_cmd, split_read, delayVars, auxVars>>

\* the method has returned and the caller goes on
Return ==
    /\ pc = "done"
    /\ pc' = "idle"
    /\ op' = "none"
    /\ ret' = NoRet
    /\ frame' = <<>>
    /\ attempt' = 0
    /\ last_error' = "ok"
    /\ total_written' = 0
    /\ buffer' = <<>>
    /\ rc_attempt' = 0
    /\ pre_state' = "disconnected"
    /\ pre_open' = FALSE
    /\ pre_rx' = <<>>
    /\ opens' = 0
    /\ closes' = 0
    /\ write_alls' = 0
    /\ read_called' = FALSE
    /\ events' = <<>>
    /\ write_fails' = 0
    /\ read_faults' = 0
    /\ last_fail' = NoFail
    /\ UNCHANGED <<devVars, trVars>>
    /\ exec_cmd' = NoCmd
    /\ split_read' = FALSE
    /\ current_delay' = 0
    /\ sleeps' = <<>>
    /\ UNCHANGED <<prev_delay, auxVars>>

(***************************************************************************)
(* device_impl_t : reconnect                                               *)
(***************************************************************************)
\* device_impl_t::_trigger_reconnect_callback
Emit(evs, event, n) == Append(evs, [event |-> event, attempt |-> n])

\* _is_recoverable_error that always takes a timeout for recoverable
_is_recoverable_error_timeout(code) ==
    code \in {"read_failed", "write_failed", "connection_closed",
              "not_connected", "io_error", "timeout"}

\* device_impl_t::_is_recoverable_error
_is_recoverable_error(code) ==
    CASE code \in {"read_failed", "write_failed", "connection_closed",
                   "not_connected", "io_error"} -> TRUE
      [] code = "timeout" -> m_config.reconnect_on_timeout
      [] OTHER -> FALSE

\* execute returning the outcome of the reconnect instead of last_error
AfterReconnect_outcome(state) ==
    IF state = "connected"
    THEN (IF op = "execute" THEN Err(last_error) ELSE OkVoid)
    ELSE Err("connection_failed")

\* the value the public method returns once _try_reconnect has returned
AfterReconnect(state) ==
    IF op = "execute" THEN Err(last_error)
    ELSE IF state = "connected" THEN OkVoid
    ELSE Err("connection_failed")

\* _try_reconnect that leaves m_state alone
BeginReconnect_keeps_state ==
    /\ UNCHANGED m_state
    /\ rc_attempt' = 0
    /\ current_delay' = m_config.reconnect_delay
    /\ events' = Emit(<<>>, "started", 0)
    /\ pc' = "rc_notify"

\* _try_reconnect that does not announce the episode
BeginReconnect_silent ==
    /\ m_state' = "reconnecting"
    /\ rc_attempt' = 0
    /\ current_delay' = m_config.reconnect_delay
    /\ events' = <<>>
    /\ pc' = "rc_notify"

\* device_impl_t::_try_reconnect, up to the loop
BeginReconnect ==
    /\ m_state' = "reconnecting"
    /\ rc_attempt' = 0
    /\ current_delay' = m_config.reconnect_delay
    /\ events' = Emit(<<>>, "started", 0)
    /\ pc' = "rc_notify"

\* has_more that allows one attempt too many
rc_has_more_off_by_one == rc_attempt + 1 <= max_attempts

\* _try_reconnect: has_more
rc_has_more == rc_attempt + 1 < max_attempts

\* device_impl_t::_try_reconnect, loop body: the attempting event
RcNotify ==
    /\ pc = "rc_notify"
    /\ events' = Emit(events, "attempting", rc_attempt + 1)
    /\ pc' = "rc_reopen"
    /\ UNCHANGED <<devVars, trVars, op, locVars, ret, pre_state, pre_open,
                   pre_rx, opens, closes, write_alls, read_called,
                   write_fails, read_faults, last_fail>>
    /\ UNCHANGED <<exec_cmd, split_read, delayVars, auxVars>>

\* device_impl_t::_try_reconnect, loop body: close, open and what follows
RcReopen ==
    /\ pc = "rc_reopen"
    /\ closes' = IF m_is_open THEN closes + 1 ELSE closes
    /\ opens' = opens + 1
    /\ \E opened \in BOOLEAN :
          IF opened
          THEN /\ m_is_open' = TRUE
               /\ m_state' = "connected"
               /\ events' = Emit(events, "success", rc_attempt + 1)
               /\ ret' = AfterReconnect("connected")
               /\ pc' = "done"
               /\ prev_delay' = current_delay
               /\ UNCHANGED <<rc_attempt, current_delay, sleeps>>
          ELSE /\ m_is_open' = FALSE
               /\ IF rc_has_more
                  THEN /\ sleeps' = AfterReconnectDelay(sleeps, current_delay,
                                                        rc_attempt + 1)
                       /\ current_delay' = NextDelay(current_delay)
                       /\ rc_attempt' = rc_attempt + 1
                       /\ pc' = "rc_notify"
                       /\ UNCHANGED <<m_state, events, ret, prev_delay>>
                  ELSE /\ m_state' = "error"
                       /\ events' = Emit(events, "failed", max_attempts)
                       /\ ret' = AfterReconnect("error")
                       /\ pc' = "done"
                       /\ prev_delay' = current_delay
                       /\ UNCHANGED <<rc_attempt, current_delay, sleeps>>
    /\ UNCHANGED <<m_config, m_read_buffer, op, frame, attempt, last_error,
                   total_written, buffer, pre_state, pre_open, pre_rx,
                   write_alls, read_called, write_fails, read_faults,
                   last_fail>>
    /\ UNCHANGED <<exec_cmd, split_read, auxVars>>

\* reconnect without its early return
Reconnect_always_loops ==
    /\ StartCall("reconnect")
    /\ opens' = 0 /\ closes' = 0 /\ write_alls' = 0
    /\ BeginReconnect
    /\ UNCHANGED <<ret, m_config, trVars, frame, attempt, last_error,
                   total_written, buffer>>
    /\ UNCHANGED <<exec_cmd, split_read, sleeps, prev_delay, auxVars>>

\* device_impl_t::reconnect
Reconnect ==
    /\ StartCall("reconnect")
    /\ opens' = 0 /\ closes' = 0 /\ write_alls' = 0
    /\ IF m_state = "connected"
       THEN /\ ret' = OkVoid
            /\ pc' = "done"
            /\ events' = <<>>
            /\ UNCHANGED <<m_state, rc_attempt, current_delay>>
       ELSE /\ BeginReconnect
            /\ UNCHANGED ret
    /\ UNCHANGED <<m_config, trVars, frame, attempt, last_error,
                   total_written, buffer>>
    /\ UNCHANGED <<exec_cmd, split_read, sleeps, prev_delay, auxVars>>

(***************************************************************************)
(* Transport (the environment of the device)                               *)
(***************************************************************************)
\* outcomes of Transport::write(data) with n bytes left to send, sent of
\* the frame already sent: an error, or the number of bytes accepted (the
\* Transport splits a frame at most once, after its first byte)
WriteOutcomes(n, sent) ==
    IF ~m_is_open THEN {Err("not_connected")}
    ELSE {Err(e) : e \in WriteErrors} \cup {Ok(0), Ok(n)}
         \cup (IF sent = 0 /\ n > 1 THEN {Ok(1)} ELSE {})

\* outcomes of Transport::read(temp): an error, no data, or a chunk
ReadOutcomes ==
    IF ~m_is_open THEN {Err("not_connected")}
    ELSE {Err(e) : e \in ReadErrors}
         \cup (IF m_read_buffer = <<>>
               THEN {Err("timeout"), Ok(0)}
               ELSE {Ok(k) : k \in 1..Min(TempSize, Len(m_read_buffer))})

\* ring buffer write that never advances its write position
BufWrite_at_front(buf, data) ==
    SubSeq(data, 1, Min(Len(data), MaxFrameSize))

\* ring buffer write: the bytes that fit are appended, the rest is dropped
BufWrite(buf, data) ==
    buf \o SubSeq(data, 1, Min(Len(data), MaxFrameSize - Len(buf)))

\* ring buffer consume: the oldest n bytes are dropped
BufConsume(buf, n) == SubSeq(buf, Min(n, Len(buf)) + 1, Len(buf))

(***************************************************************************)
(* device_impl_t : execute                                                 *)
(***************************************************************************)
\* execute that hands a failed encode to _handle_error
Execute_encode_handled(cmd) ==
    /\ StartCall("execute")
    /\ opens' = 0 /\ closes' = 0 /\ events' = <<>>
    /\ IF ~is_connected
       THEN /\ ret' = Err("not_connected")
            /\ pc' = "done"
            /\ write_alls' = 0
            /\ UNCHANGED <<frame, last_error>>
       ELSE IF ~encode(cmd).ok
       THEN /\ last_error' = encode(cmd).err
            /\ pc' = "handle_error"
            /\ write_alls' = 0
            /\ UNCHANGED <<frame, ret>>
       ELSE /\ frame' = encode(cmd).val
            /\ pc' = "write_all"
            /\ write_alls' = 1
            /\ UNCHANGED <<ret, last_error>>
    /\ UNCHANGED <<devVars, trVars, attempt, total_written, buffer,
                   rc_attempt>>
    /\ exec_cmd' = cmd
    /\ UNCHANGED <<split_read, delayVars, auxVars>>

\* device_impl_t::execute, up to the retry loop
Execute(cmd) ==
    /\ StartCall("execute")
    /\ opens' = 0 /\ closes' = 0 /\ events' = <<>>
    /\ IF ~is_connected
       THEN /\ ret' = Err("not_connected")
            /\ pc' = "done"
            /\ write_alls' = 0
            /\ UNCHANGED frame
       ELSE IF ~encode(cmd).ok
       THEN /\ ret' = Err(encode(cmd).err)
            /\ pc' = "done"
            /\ write_alls' = 0
            /\ UNCHANGED frame
       ELSE /\ frame' = encode(cmd).val
            /\ pc' = "write_all"
            /\ write_alls' = 1
            /\ UNCHANGED ret
    /\ UNCHANGED <<devVars, trVars, attempt, last_error, total_written,
                   buffer, rc_attempt>>
    /\ exec_cmd' = cmd
    /\ UNCHANGED <<split_read, delayVars, auxVars>>

\* an attempt of execute has failed with error code e at the given stage
\* a failed attempt that leaves the buffered bytes to the next attempt
AttemptFailed_keeps_buffer(stage, e) ==
    /\ last_error' = e
    /\ last_fail' = [stage |-> stage, err |-> e]
    /\ write_fails' = IF stage = "write" THEN write_fails + 1 ELSE write_fails
    /\ read_faults' = IF stage = "read" THEN read_faults + 1 ELSE read_faults
    /\ pc' = "attempt_failed"
    /\ total_written' = 0
    /\ UNCHANGED buffer

AttemptFailed(stage, e) ==
    /\ last_error' = e
    /\ last_fail' = [stage |-> stage, err |-> e]
    /\ write_fails' = IF stage = "write" THEN write_fails + 1 ELSE write_fails
    /\ read_faults' = IF stage = "read" THEN read_faults + 1 ELSE read_faults
    /\ pc' = "attempt_failed"
    /\ total_written' = 0
    /\ buffer' = <<>>

\* the attempt of execute goes on
AttemptGoesOn == UNCHANGED <<last_error, last_fail, write_fails, read_faults>>

\* i_transport_t::write_all, one iteration of its loop (one Transport::write)
ExecWrite ==
    /\ pc = "write_all"
    /\ \E out \in WriteOutcomes(Len(frame) - total_written, total_written) :
          IF ~out.ok
          THEN AttemptFailed("write", out.err)
          ELSE /\ IF total_written + out.val < Len(frame)
                  THEN /\ total_written' = total_written + out.val
                       /\ pc' = "write_all"
                  ELSE /\ total_written' = 0
                       /\ pc' = "read_response"
               /\ AttemptGoesOn
               /\ UNCHANGED buffer
    /\ UNCHANGED <<devVars, trVars, op, frame, attempt, rc_attempt, ret,
                   pre_state, pre_open, pre_rx, opens, closes, write_alls,
                   read_called, events>>
    /\ UNCHANGED <<exec_cmd, split_read, delayVars, auxVars>>

\* _read_response: a complete frame is buffered
FrameReady ==
    /\ Len(buffer) > 0
    /\ frame_length(buffer) > 0
    /\ frame_length(buffer) <= Len(buffer)

\* device_impl_t::_read_response, loop iteration that decodes and returns
ExecDecode ==
    /\ pc = "read_response"
    /\ FrameReady
    /\ LET d == decode(SubSeq(buffer, 1, frame_length(buffer)))
       IN  IF d.res.ok
           THEN /\ ret' = d.res
                /\ pc' = "done"
                /\ buffer' = BufConsume(buffer, d.consumed)
                /\ AttemptGoesOn
                /\ UNCHANGED total_written
           ELSE /\ AttemptFailed("decode", d.res.err)
                /\ UNCHANGED ret
    /\ UNCHANGED <<devVars, trVars, op, frame, attempt, rc_attempt,
                   pre_state, pre_open, pre_rx, opens, closes, write_alls,
                   read_called, events>>
    /\ UNCHANGED <<exec_cmd, split_read, delayVars, auxVars>>

\* device_impl_t::_read_response, loop iteration that reads more bytes
ExecRead ==
    /\ pc = "read_response"
    /\ ~FrameReady
    /\ read_called' = TRUE
    /\ \E out \in ReadOutcomes :
          /\ split_read' =
                (split_read \/ (out.ok /\ out.val < Len(m_read_buffer)))
          /\ IF ~out.ok
             THEN /\ AttemptFailed(IF out.err = "timeout" THEN "empty"
                                   ELSE "read", out.err)
                  /\ UNCHANGED m_read_buffer
             ELSE IF out.val = 0
             THEN /\ AttemptFailed("empty", "timeout")
                  /\ UNCHANGED m_read_buffer
             ELSE /\ m_read_buffer' =
                        SubSeq(m_read_buffer, out.val + 1, Len(m_read_buffer))
                  /\ IF Len(BufWrite(buffer, SubSeq(m_read_buffer, 1, out.val)))
                           > MaxFrameSize
                     THEN AttemptFailed("overflow", "frame_too_large")
                     ELSE /\ buffer' =
                                BufWrite(buffer, SubSeq(m_read_buffer, 1, out.val))
                          /\ pc' = "read_response"
                          /\ AttemptGoesOn
                          /\ UNCHANGED total_written
    /\ UNCHANGED <<devVars, m_is_open, op, frame, attempt, rc_attempt, ret,
                   pre_state, pre_open, pre_rx, opens, closes, write_alls,
                   events>>
    /\ UNCHANGED <<exec_cmd, delayVars, auxVars>>

\* has_more that gives up one attempt early
exec_has_more_off_by_one == attempt + 2 < max_attempts

\* execute: has_more
exec_has_more == attempt + 1 < max_attempts

\* device_impl_t::execute, end of the loop body: retry or give up
ExecRetry ==
    /\ pc = "attempt_failed"
    /\ IF exec_has_more
       THEN /\ sleeps' = AfterRetryDelay(sleeps, attempt + 1)
            /\ attempt' = attempt + 1
            /\ write_alls' = write_alls + 1
            /\ pc' = "write_all"
       ELSE /\ pc' = "handle_error"
            /\ UNCHANGED <<attempt, write_alls, sleeps>>
    /\ UNCHANGED <<devVars, trVars, op, frame, last_error, total_written,
                   buffer, rc_attempt, ret, pre_state, pre_open, pre_rx,
                   opens, closes, read_called, events, write_fails,
                   read_faults, last_fail>>
    /\ UNCHANGED <<exec_cmd, split_read, current_delay, prev_delay, auxVars>>

\* device_impl_t::_handle_error, called by execute with last_error
HandleError ==
    /\ pc = "handle_error"
    /\ IF ~m_config.auto_reconnect \/ ~_is_recoverable_error(last_error)
       THEN \* disconnect()
            /\ m_is_open' = FALSE
            /\ closes' = closes + 1
            /\ m_state' = "disconnected"
            /\ ret' = Err(last_error)
            /\ pc' = "done"
            /\ UNCHANGED <<rc_attempt, events, current_delay>>
       ELSE /\ BeginReconnect
            /\ UNCHANGED <<m_is_open, closes, ret>>
    /\ UNCHANGED <<m_config, m_read_buffer, op, frame, attempt, last_error,
                   total_written, buffer, pre_state, pre_open, pre_rx, opens,
                   write_alls, read_called, write_fails, read_faults,
                   last_fail>>
    /\ UNCHANGED <<exec_cmd, split_read, sleeps, prev_delay, auxVars>>

(***************************************************************************)
(* The caller between two method calls                                     *)
(***************************************************************************)
\* device_impl_t::set_config
SetConfig(c) ==
    /\ pc = "idle"
    /\ m_config' = c
    /\ c # m_config
    /\ UNCHANGED <<m_state, trVars, pc, op, locVars, ret, obsVars>>
    /\ UNCHANGED <<exec_cmd, split_read, delayVars, auxVars>>

\* the peer sends bytes (mock_transport_t::set_response); it sends only when
\* nothing is pending
SetResponse(data) ==
    /\ pc = "idle"
    /\ m_read_buffer = <<>>
    /\ Len(data) <= MaxRx
    /\ m_read_buffer' = m_read_buffer \o data
    /\ UNCHANGED <<devVars, m_is_open, pc, op, locVars, ret, obsVars>>
    /\ UNCHANGED <<exec_cmd, split_read, delayVars, auxVars>>

\* the peer keeps sending while the device reads: one more byte arrives once
\* the device has taken everything and its reassembly buffer is full
PeerSends ==
    /\ pc = "read_response"
    /\ m_read_buffer = <<>>
    /\ Len(buffer) = MaxFrameSize
    /\ ~FrameReady
    /\ m_is_open
    /\ m_read_buffer' = <<255>>
    /\ UNCHANGED <<devVars, m_is_open, pc, op, locVars, ret, obsVars>>
    /\ UNCHANGED <<exec_cmd, split_read, delayVars, auxVars>>

\* pending input is dropped (mock_transport_t::flush_read)
FlushRead ==
    /\ pc = "idle"
    /\ m_read_buffer # <<>>
    /\ m_read_buffer' = <<>>
    /\ UNCHANGED <<devVars, m_is_open, pc, op, locVars, ret, obsVars>>
    /\ UNCHANGED <<exec_cmd, split_read, delayVars, auxVars>>

\* the Transport is closed behind the device's back (transport()->close())
TransportClose ==
    /\ pc = "idle"
    /\ m_is_open
    /\ m_is_open' = FALSE
    /\ UNCHANGED <<devVars, m_read_buffer, pc, op, locVars, ret, obsVars>>
    /\ UNCHANGED <<exec_cmd, split_read, delayVars, auxVars>>

Next ==
    \/ Connect
    \/ ConnectOpen
    \/ Disconnect
    \/ Reconnect
    \/ RcNotify
    \/ RcReopen
    \/ \E cmd \in CmdSet : Execute(cmd)
    \/ ExecWrite
    \/ ExecDecode
    \/ ExecRead
    \/ ExecRetry
    \/ HandleError
    \/ Return
    \/ \E c \in ConfigSet : SetConfig(c)
    \/ \E data \in ResponseSet : SetResponse(data)
    \/ PeerSends
    \/ FlushRead
    \/ TransportClose

Spec == Init /\ [][Next]_vars

\* the device with a Transport that only the device opens and closes
OwnedNext ==
    \/ Connect
    \/ ConnectOpen
    \/ Disconnect
    \/ Reconnect
    \/ RcNotify
    \/ RcReopen
    \/ \E cmd \in CmdSet : Execute(cmd)
    \/ ExecWrite
    \/ ExecDecode
    \/ ExecRead
    \/ ExecRetry
    \/ HandleError
    \/ Return
    \/ \E c \in ConfigSet : SetConfig(c)
    \/ \E data \in ResponseSet : SetResponse(data)
    \/ PeerSends
    \/ FlushRead

OwnedSpec == Init /\ [][OwnedNext]_vars

\* a step of the caller's thread inside a public method
CallerStep ==
    \/ ConnectOpen
    \/ RcNotify
    \/ RcReopen
    \/ ExecWrite
    \/ ExecDecode
    \/ ExecRead
    \/ ExecRetry
    \/ HandleError

\* a caller that connects the device and then calls execute() again and
\* again, with the configuration the device was constructed with
ExecNext ==
    \/ Connect
    \/ ConnectOpen
    \/ \E cmd \in CmdSet : Execute(cmd)
    \/ ExecWrite
    \/ ExecDecode
    \/ ExecRead
    \/ ExecRetry
    \/ HandleError
    \/ RcNotify
    \/ RcReopen
    \/ Return
    \/ \E data \in ResponseSet : SetResponse(data)
    \/ PeerSends

\* the caller's thread keeps running: a method that has been entered takes
\* its next step
ExecSpec == Init /\ [][ExecNext]_vars /\ WF_vars(CallerStep)

\* a device whose configuration has delays, used by one caller
DelayInit == m_config \in DelayConfigs /\ DeviceNew /\ AuxOff

\* the command the caller with delays sends, and what the peer answers
DelayCmds == {[fc |-> 3, data |-> <<>>]}
DelayResponses == {r \in ValidFrames : Len(r) = MIN_FRAME_SIZE}

DelayNext ==
    \/ Connect
    \/ ConnectOpen
    \/ \E cmd \in DelayCmds : Execute(cmd)
    \/ ExecWrite
    \/ ExecDecode
    \/ ExecRead
    \/ ExecRetry
    \/ HandleError
    \/ Reconnect
    \/ RcNotify
    \/ RcReopen
    \/ Return
    \/ \E data \in DelayResponses : SetResponse(data)

DelaySpec == DelayInit /\ [][DelayNext]_vars

DelayTypeOK ==
    /\ m_config \in DelayConfigs
    /\ current_delay \in 0..Max(m_config.reconnect_delay,
                                m_config.max_reconnect_delay)
    /\ prev_delay \in 0..Max(m_config.reconnect_delay,
                             m_config.max_reconnect_delay)
    /\ Len(sleeps) <= 2 * max_attempts
    /\ \A i \in 1..Len(sleeps) :
          /\ sleeps[i].kind \in {"retry", "reconnect"}
          /\ sleeps[i].ms > 0
          /\ sleeps[i].after \in 1..max_attempts

TypeOK ==
    /\ m_state \in {"disconnected", "connecting", "connected",
                    "reconnecting", "error"}
    /\ m_config \in ConfigSet
    /\ m_is_open \in BOOLEAN
    /\ Len(m_read_buffer) <= MaxRx
    /\ Len(buffer) <= MaxFrameSize
    /\ attempt < max_attempts
    /\ rc_attempt < max_attempts

(***************************************************************************)
(* Properties of device_impl_t                                             *)
(***************************************************************************)
Last(seq) == seq[Len(seq)]

IsPrefix(p, q) == Len(p) <= Len(q) /\ SubSeq(q, 1, Len(p)) = p

\* the device was connected (state connected, Transport open) when the
\* method was called
WasConnected == pre_state = "connected" /\ pre_open

\* number of events of the given kind emitted so far
Count(kind) == Cardinality({i \in 1..Len(events) : events[i].event = kind})

\* error codes that are eligible for a reconnect
Recoverable ==
    {"write_failed", "read_failed", "connection_closed", "not_connected",
     "io_error"}

\* C1: execute() on a device for which is_connected() is false returns
\* not_connected at once, performs no Transport operation (no write, read,
\* open or close) and leaves the device state and the Transport as they were.
C1_ExecuteNotConnected ==
    (op = "execute" /\ ~WasConnected) =>
        /\ pc = "done"
        /\ ret = Err("not_connected")
        /\ opens = 0
        /\ closes = 0
        /\ write_alls = 0
        /\ ~read_called
        /\ m_state = pre_state
        /\ m_is_open = pre_open

\* execute() has returned not_connected on a device in state connected whose
\* Transport is closed
C1_Witness ==
    /\ op = "execute"
    /\ pc = "done"
    /\ pre_state = "connected"
    /\ ~pre_open
    /\ ret = Err("not_connected")

\* C2: with max_retries >= 1, when write fails exactly max_retries-1 times
\* and then succeeds and a complete valid frame is ready to be read (and no
\* read fails), execute() returns the response of that frame after exactly
\* max_retries write attempts, starts no reconnect episode and leaves the
\* device connected.
C2_RetryThenSuccess ==
    \A r \in ValidResponses :
        (/\ op = "execute"
         /\ pc = "done"
         /\ WasConnected
         /\ frame # <<>>
         /\ m_config.max_retries >= 1
         /\ write_fails = m_config.max_retries - 1
         /\ read_faults = 0
         /\ IsPrefix(FrameOf(r), pre_rx))
        => /\ ret = Ok(r)
           /\ write_alls = m_config.max_retries
           /\ events = <<>>
           /\ opens = 0
           /\ closes = 0
           /\ m_state = "connected"
           /\ m_is_open

\* execute() has succeeded on its second attempt after one failed write
C2_Witness ==
    /\ op = "execute"
    /\ pc = "done"
    /\ m_config.max_retries = 2
    /\ write_fails = 1
    /\ read_faults = 0
    /\ write_alls = 2
    /\ ret = Ok([fc |-> 5, data |-> <<1>>])

\* C3: when every attempt of execute() has failed, execute() returns the
\* error of the final attempt, whether the reconnect episode that follows
\* succeeds or fails, and the command is not sent again after the reconnect:
\* the number of write attempts stays max(1, max_retries).
C3_LastErrorReturned ==
    /\ (op = "execute" /\ pc = "done" /\ ~ret.ok /\ write_alls > 0) =>
          /\ ret = Err(last_fail.err)
          /\ write_alls = Max(1, m_config.max_retries)
    /\ (op = "execute" /\ pc \in {"handle_error", "rc_notify", "rc_reopen"}) =>
          /\ write_alls = Max(1, m_config.max_retries)
          /\ last_error = last_fail.err

\* execute() has returned write_failed after a reconnect episode that failed
C3_Witness ==
    /\ op = "execute"
    /\ pc = "done"
    /\ ret = Err("write_failed")
    /\ events # <<>>
    /\ Last(events).event = "failed"
    /\ m_state = "error"

\* C4: in a reconnect episode the number of Transport.open calls is the
\* number of reconnect attempts made: k when the k-th reopen is the first to
\* succeed (the device is then connected and is_connected() holds), and
\* max(1, max_retries) when every reopen fails (the device is then in state
\* error with the Transport closed); nothing is opened after the success.
C4_OpenCount ==
    events # <<>> =>
        /\ opens = Count("attempting") - (IF pc = "rc_reopen" THEN 1 ELSE 0)
        /\ Count("success") > 0 =>
              /\ pc = "done"
              /\ Last(events).event = "success"
              /\ opens = Last(events).attempt
              /\ m_state = "connected"
              /\ m_is_open
        /\ (pc = "done" /\ Count("success") = 0) =>
              /\ opens = Max(1, m_config.max_retries)
              /\ m_state = "error"
              /\ ~m_is_open

\* the second reopen of an episode was the first to succeed
C4_Witness ==
    /\ pc = "done"
    /\ events # <<>>
    /\ Last(events) = [event |-> "success", attempt |-> 2]
    /\ opens = 2
    /\ m_state = "connected"

\* the Transport reported no failure of its own during this call: every
\* write was accepted and every read delivered data or found nothing to read
TransportSound == write_fails = 0 /\ read_faults = 0

\* C5: an execute() whose response bytes are malformed (they never form a
\* valid frame) never causes Transport.open to be called, whatever the
\* configuration: the open count after execute() is the open count before.
C5_NoReopenOnMalformed ==
    (/\ op = "execute"
     /\ WasConnected
     /\ pre_rx \in MalformedSet
     /\ TransportSound)
    => opens = 0

\* the final error code of an execute() whose attempts are exhausted is
\* eligible for a reconnect under the configuration
Eligible ==
    /\ m_config.auto_reconnect
    /\ \/ last_fail.err \in Recoverable
       \/ last_fail.err = "timeout" /\ m_config.reconnect_on_timeout

\* execute() has exhausted its attempts and has gone through _handle_error
Exhausted ==
    /\ op = "execute"
    /\ last_fail.stage # "none"
    /\ \/ pc \in {"rc_notify", "rc_reopen"}
       \/ pc = "done" /\ ~ret.ok

\* C6: after execute() has exhausted its attempts with final error E, a
\* reconnect episode (and hence any Transport.open) starts if and only if
\* auto_reconnect holds and E is write_failed, read_failed,
\* connection_closed, not_connected or io_error, or E is timeout and
\* reconnect_on_timeout holds; otherwise the device is disconnected at once:
\* state disconnected, Transport closed, nothing opened.
C6_ReconnectIffRecoverable ==
    Exhausted =>
        /\ (events # <<>>) <=> Eligible
        /\ opens > 0 => Eligible
        /\ (Eligible /\ pc = "done") => opens > 0
        /\ ~Eligible =>
              /\ pc = "done"
              /\ m_state = "disconnected"
              /\ ~m_is_open
              /\ closes = 1
              /\ opens = 0

\* execute() has failed with timeout under auto_reconnect without
\* reconnect_on_timeout and has disconnected the device
C6_Witness ==
    /\ Exhausted
    /\ pc = "done"
    /\ last_fail.err = "timeout"
    /\ m_config.auto_reconnect
    /\ ~m_config.reconnect_on_timeout
    /\ m_state = "disconnected"
    /\ events = <<>>

\* the terminal events of a reconnect episode
Terminal == {"success", "failed"}

SpecEdges ==
    {<<"disconnected", "connecting">>,
     <<"connecting", "connected">>,
     <<"connecting", "error">>,
     <<"connected", "reconnecting">>,
     <<"reconnecting", "connected">>,
     <<"reconnecting", "error">>}
    \cup {<<st, "disconnected">> :
            st \in {"connecting", "connected", "reconnecting", "error"}}

\* C8 as stated: under every sequence of connect(), disconnect(), execute()
\* and reconnect() calls the device state changes only along the edges the
\* specification lists; no other edge (error to connected through connect(),
\* disconnected to reconnecting through reconnect()) is ever taken.
C8_SpecEdgesOnly ==
    [][m_state' # m_state => <<m_state, m_state'>> \in SpecEdges]_vars

\* the edge from state a to state b is one the method running may take
CodeEdge(a, b, method) ==
    \/ /\ method = "connect"
       /\ \/ a \in {"disconnected", "error"} /\ b = "connecting"
          \/ a = "connecting" /\ b \in {"connected", "error"}
    \/ /\ method = "execute"
       /\ \/ a = "connected" /\ b \in {"reconnecting", "disconnected"}
          \/ a = "reconnecting" /\ b \in {"connected", "error"}
    \/ /\ method = "reconnect"
       /\ \/ a \in {"disconnected", "error"} /\ b = "reconnecting"
          \/ a = "reconnecting" /\ b \in {"connected", "error"}
    \/ /\ method = "disconnect"
       /\ b = "disconnected"

\* C8 amended: the device state changes only along these edges:
\* disconnected or error to connecting and connecting to connected or error
\* by connect(); connected to reconnecting (recoverable fault with
\* auto_reconnect) or to disconnected (any other fault) by execute();
\* disconnected or error to reconnecting by reconnect(); reconnecting to
\* connected or error; any state to disconnected by disconnect().
C8_CodeEdgesOnly ==
    [][m_state' # m_state => CodeEdge(m_state, m_state', op')]_vars

\* connect() has brought a device from state error to state connected
C8_Witness ==
    /\ op = "connect"
    /\ pc = "done"
    /\ pre_state = "error"
    /\ m_state = "connected"

\* C9: connect() is idempotent: on a device in state connected it returns
\* success without calling Transport.open and without changing the state, so
\* repeated calls after a successful one have the effect of one.
C9_ConnectIdempotent ==
    (op = "connect" /\ pre_state = "connected") =>
        /\ pc = "done"
        /\ ret = OkVoid
        /\ opens = 0
        /\ closes = 0
        /\ m_state = "connected"
        /\ m_is_open = pre_open

\* connect() has returned on a device that was connected already
C9_Witness ==
    /\ op = "connect"
    /\ pc = "done"
    /\ pre_state = "connected"
    /\ pre_open
    /\ ret = OkVoid

\* C10: reconnect() on a device in state connected returns success and does
\* nothing (no event, the Transport neither closed nor opened); from any
\* other state it runs the reconnect loop and returns success exactly when
\* the loop ends in state connected, otherwise connection_failed with the
\* device in state error.
C10_ManualReconnect ==
    op = "reconnect" =>
        /\ pre_state = "connected" =>
              /\ pc = "done"
              /\ ret = OkVoid
              /\ events = <<>>
              /\ opens = 0
              /\ closes = 0
              /\ m_state = "connected"
              /\ m_is_open = pre_open
        /\ pre_state # "connected" =>
              /\ events # <<>>
              /\ events[1].event = "started"
              /\ pc \in {"rc_notify", "rc_reopen", "done"}
              /\ pc = "done" =>
                    /\ opens > 0
                    /\ ret \in {OkVoid, Err("connection_failed")}
                    /\ ret = OkVoid <=>
                          (m_state = "connected"
                           /\ Last(events).event = "success")
                    /\ ret = Err("connection_failed") <=>
                          (m_state = "error"
                           /\ Last(events).event = "failed")

\* reconnect() from state disconnected has failed with connection_failed
C10_Witness ==
    /\ op = "reconnect"
    /\ pc = "done"
    /\ pre_state = "disconnected"
    /\ ret = Err("connection_failed")
    /\ m_state = "error"

(***************************************************************************)
(* Properties of the response reassembly                                   *)
(***************************************************************************)
\* the wire frame of every response of the peer
FrameTable == [r \in ValidResponses |-> FrameOf(r)]

\* C11: response reassembly does not depend on fragmentation: a valid
\* response frame no larger than the codec's max frame size, delivered in any
\* split into non-empty reads, is decoded to the same response as when it
\* arrives in one read; until then every byte read in the attempt is in the
\* reassembly buffer, in order.
C11_ReassemblyAnyFragmentation ==
    \A r \in ValidResponses :
        (/\ op = "execute"
         /\ WasConnected
         /\ read_called
         /\ read_faults = 0
         /\ pre_rx = FrameTable[r])
        => /\ pc \in {"read_response", "done"}
           /\ pc = "read_response" => buffer \o m_read_buffer = pre_rx
           /\ pc = "done" => (ret = Ok(r) /\ m_read_buffer = <<>>)

\* execute() has returned the response of a frame as long as the codec allows
\* that arrived in more than one read
C11_Witness ==
    /\ op = "execute"
    /\ pc = "done"
    /\ pre_rx = FrameTable[[fc |-> 6, data |-> FullData]]
    /\ Len(pre_rx) = MaxFrameSize
    /\ split_read
    /\ read_faults = 0
    /\ ret = Ok([fc |-> 6, data |-> FullData])

\* C12: in the reassembly loop, once the bytes the Transport delivered in the
\* attempt exceed the codec's max frame size without a complete frame, the
\* attempt fails with frame_too_large; and a read of zero bytes makes the
\* attempt fail with timeout.
C12_OverflowAndEmptyRead ==
    /\ (/\ op = "execute"
        /\ WasConnected
        /\ pre_rx = Garbage
        /\ attempt = 0
        /\ read_called
        /\ read_faults = 0
        /\ m_read_buffer = <<>>)
       => /\ pc # "read_response"
          /\ last_fail.err = "frame_too_large"
    /\ last_fail.stage = "empty" => last_fail.err = "timeout"

\* C13: every execute() call eventually returns, provided every Transport
\* read and write call returns, also against a Transport that keeps
\* delivering bytes that never form a frame.
C13_ExecuteReturns == (op = "execute") ~> (pc = "done")

\* C16: a command whose frame would be larger than the codec's max frame
\* size makes encode fail with frame_too_large; execute() of it returns that
\* error with no Transport write or read, no retry, no error handling and no
\* reconnect, and the device stays connected.
C16_EncodeTooLarge ==
    (/\ op = "execute"
     /\ WasConnected
     /\ HEADER_SIZE + Len(exec_cmd.data) + CRC_SIZE > MaxFrameSize)
    => /\ pc = "done"
       /\ ret = Err("frame_too_large")
       /\ frame = <<>>
       /\ write_alls = 0
       /\ ~read_called
       /\ attempt = 0
       /\ last_fail = NoFail
       /\ opens = 0
       /\ closes = 0
       /\ events = <<>>
       /\ m_state = "connected"
       /\ m_is_open

\* execute() of a command one byte too long has returned frame_too_large
C16_Witness ==
    /\ op = "execute"
    /\ pc = "done"
    /\ WasConnected
    /\ exec_cmd = [fc |-> 7, data |-> LongData]
    /\ Len(LongData) = MaxFrameSize - MIN_FRAME_SIZE + 1
    /\ ret = Err("frame_too_large")

(***************************************************************************)
(* binary_codec_t exercised on its own                                     *)
(***************************************************************************)
\* the device idle as constructed, with the first configuration
DeviceOff ==
    /\ DeviceNew
    /\ m_config = [max_retries |-> 0, auto_reconnect |-> FALSE,
                   reconnect_on_timeout |-> FALSE, retry_delay |-> 0,
                   reconnect_delay |-> 0, backoff_multiplier |-> 2,
                   max_reconnect_delay |-> 0]

\* sequences over S of length 0..n
SeqsUpTo(S, n) == UNION {[1..k -> S] : k \in 0..n}

\* number of payload lengths the two bytes of LEN tell apart
LenRange == 256 * 256

\* values given to set_max_frame_size: small ones, and the smallest one that
\* admits a payload whose length LEN cannot hold
CodecSizes ==
    (MIN_FRAME_SIZE..(MaxFrameSize + 1))
        \cup {HEADER_SIZE + LenRange + CRC_SIZE}

\* commands given to encode: a few payload bytes, and after them no byte or
\* as many zero bytes as make the payload length one that LEN cannot hold
CodecCmds ==
    [fc : {3, SOF, 255},
     head : SeqsUpTo({0, SOF}, MaxFrameSize - MIN_FRAME_SIZE + 1),
     pad : {0, LenRange}]

\* the command_t that c stands for
CodecCmd(c) == [fc |-> c.fc, data |-> c.head \o [i \in 1..c.pad |-> 0]]

\* buffers shorter than a frame given to decode and frame_length
ShortBufs == SeqsUpTo({0, 5, SOF}, MIN_FRAME_SIZE - 1)

\* a few frames as encode builds them
SomeFrames ==
    {FrameBytes(Len(data), 3, data) : data \in {<<>>, <<1>>, <<SOF, 0>>}}

\* f with its last byte, the high byte of the CRC, changed
BadCrc(f) == [f EXCEPT ![Len(f)] = (f[Len(f)] + 1) % 256]

\* buffers of at least a frame's length given to decode and frame_length:
\* every string of 6 or 7 bytes over three values, and frames as they are,
\* after or before other bytes, and with a wrong CRC
LongBufs ==
    {b \in SeqsUpTo({0, 1, SOF}, MIN_FRAME_SIZE + 1) :
        Len(b) >= MIN_FRAME_SIZE}
    \cup SomeFrames
    \cup {<<0, 1>> \o f : f \in SomeFrames}
    \cup {f \o <<SOF, 0>> : f \in SomeFrames}
    \cup {BadCrc(f) : f \in SomeFrames}

CodecInit ==
    /\ DeviceOff
    /\ RingNew
    /\ HbOff
    /\ c_enc = NoRet
    /\ c_dec = NoDec
    /\ c_flen = 0
    /\ \/ /\ c_pc = "cmd"
          /\ c_max \in CodecSizes
          /\ c_cmd \in CodecCmds
          /\ c_buf = <<>>
       \/ /\ c_pc = "raw"
          /\ c_max = MaxFrameSize
          /\ c_cmd = NoCodecCmd
          /\ c_buf \in ShortBufs
       \/ /\ c_pc = "raw"
          /\ c_max \in {MIN_FRAME_SIZE, MaxFrameSize}
          /\ c_cmd = NoCodecCmd
          /\ c_buf \in LongBufs

\* encode(c_cmd), then decode and frame_length of the frame it produced
CodecEncodeDecode ==
    /\ c_pc = "cmd"
    /\ \E enc \in {binary_encode(CodecCmd(c_cmd), c_max)} :
          IF enc.ok
          THEN /\ c_enc' = [ok |-> TRUE, len |-> Len(enc.val)]
               /\ c_dec' = binary_decode(enc.val, c_max)
               /\ c_flen' = frame_length(enc.val)
               /\ c_pc' = "decoded"
          ELSE /\ c_enc' = enc
               /\ c_pc' = "refused"
               /\ UNCHANGED <<c_dec, c_flen>>
    /\ UNCHANGED <<c_max, c_cmd, c_buf>>
    /\ UNCHANGED <<deviceVars, ringVars, hbVars>>

\* decode(c_buf, consumed) and frame_length(c_buf)
CodecDecode ==
    /\ c_pc = "raw"
    /\ c_dec' = binary_decode(c_buf, c_max)
    /\ c_flen' = frame_length(c_buf)
    /\ c_pc' = "raw_decoded"
    /\ UNCHANGED <<c_max, c_cmd, c_buf, c_enc>>
    /\ UNCHANGED <<deviceVars, ringVars, hbVars>>

\* decode of the first frame_length(c_buf) bytes of c_buf, as
\* _read_response calls it once that many bytes are there
CodecDecodeFrame ==
    /\ c_pc = "raw_decoded"
    /\ c_flen > 0
    /\ Len(c_buf) >= c_flen
    /\ c_dec' = binary_decode(SubSeq(c_buf, 1, c_flen), c_max)
    /\ c_pc' = "frame_decoded"
    /\ UNCHANGED <<c_max, c_cmd, c_buf, c_enc, c_flen>>
    /\ UNCHANGED <<deviceVars, ringVars, hbVars>>

CodecNext ==
    \/ CodecEncodeDecode
    \/ CodecDecode
    \/ CodecDecodeFrame

CodecSpec == CodecInit /\ [][CodecNext]_vars

CodecTypeOK ==
    /\ c_max \in CodecSizes
    /\ c_pc \in {"cmd", "raw", "refused", "decoded", "raw_decoded",
                 "frame_decoded"}
    /\ c_flen \in Nat
    /\ c_dec.consumed \in Nat

\* C14: binary codec round trip: for every configured max_frame_size, every
\* function code and every payload with length <= max_frame_size - 6, encode
\* succeeds and decode of the encoded bytes succeeds with consumed equal to
\* the encoded length and a response whose function code and payload equal
\* the command's.
C14_RoundTrip ==
    (c_pc \in {"refused", "decoded"}
     /\ Len(c_cmd.head) + c_cmd.pad <= c_max - MIN_FRAME_SIZE) =>
        /\ c_pc = "decoded"
        /\ c_enc.ok
        /\ c_enc.len = MIN_FRAME_SIZE + Len(c_cmd.head) + c_cmd.pad
        /\ c_dec.consumed = c_enc.len
        /\ c_dec.res = Ok(CodecCmd(c_cmd))

RingBytes == {1, 2}

\* the data given to write: 1 to capacity + 1 bytes
RingData == SeqsUpTo(RingBytes, RingCap + 1) \ {<<>>}

\* the sizes given to read, peek and skip
RingSizes == 0..(RingCap + 1)

\* memcpy out of the storage: n bytes from position pos on, in two parts if
\* they reach beyond the end
CopyOut(b, pos, n) ==
    IF pos + n <= RingCap
    THEN [i \in 1..n |-> b.buffer_[pos + i - 1]]
    ELSE [i \in 1..n |->
            IF i <= RingCap - pos
            THEN b.buffer_[pos + i - 1]
            ELSE b.buffer_[i - (RingCap - pos) - 1]]

\* write that copies only the part up to the end of the storage
RbWrite_first_part_only(b, data) ==
    LET to_write == Min(Len(data), RingCap - b.data_size_)
    IN  IF to_write = 0
        THEN [b |-> b, ret |-> 0]
        ELSE [b |-> [b EXCEPT
                      !.buffer_ =
                          [j \in 0..(RingCap - 1) |->
                              IF j >= b.write_pos_
                                 /\ j < b.write_pos_ + to_write
                              THEN data[j - b.write_pos_ + 1]
                              ELSE b.buffer_[j]],
                      !.write_pos_ = (b.write_pos_ + to_write) % RingCap,
                      !.data_size_ = b.data_size_ + to_write],
              ret |-> to_write]

\* CircularBuffer::write: the buffer afterwards and the value returned
RbWrite(b, data) ==
    LET available == RingCap - b.data_size_
        to_write == Min(Len(data), available)
        first_part == RingCap - b.write_pos_
    IN  IF to_write = 0
        THEN [b |-> b, ret |-> 0]
        ELSE [b |-> [b EXCEPT
                      !.buffer_ =
                          IF b.write_pos_ + to_write <= RingCap
                          THEN [j \in 0..(RingCap - 1) |->
                                  IF j >= b.write_pos_
                                     /\ j < b.write_pos_ + to_write
                                  THEN data[j - b.write_pos_ + 1]
                                  ELSE b.buffer_[j]]
                          ELSE [j \in 0..(RingCap - 1) |->
                                  IF j >= b.write_pos_
                                  THEN data[j - b.write_pos_ + 1]
                                  ELSE IF j < to_write - first_part
                                  THEN data[first_part + j + 1]
                                  ELSE b.buffer_[j]],
                      !.write_pos_ = (b.write_pos_ + to_write) % RingCap,
                      !.data_size_ = b.data_size_ + to_write],
              ret |-> to_write]

\* CircularBuffer::read: the buffer afterwards, the bytes copied out and the
\* value returned
RbRead(b, size) ==
    LET to_read == Min(size, b.data_size_)
    IN  IF to_read = 0
        THEN [b |-> b, out |-> <<>>, ret |-> 0]
        ELSE [b |-> [b EXCEPT
                      !.read_pos_ = (b.read_pos_ + to_read) % RingCap,
                      !.data_size_ = b.data_size_ - to_read],
              out |-> CopyOut(b, b.read_pos_, to_read),
              ret |-> to_read]

\* peek that copies from the start of the storage
RbPeek_from_start(b, size) ==
    LET to_peek == Min(size, b.data_size_)
    IN  IF to_peek = 0
        THEN [out |-> <<>>, ret |-> 0]
        ELSE [out |-> CopyOut(b, 0, to_peek), ret |-> to_peek]

\* CircularBuffer::peek: the bytes copied out and the value returned
RbPeek(b, size) ==
    LET to_peek == Min(size, b.data_size_)
    IN  IF to_peek = 0
        THEN [out |-> <<>>, ret |-> 0]
        ELSE [out |-> CopyOut(b, b.read_pos_, to_peek), ret |-> to_peek]

\* CircularBuffer::clear
RbClear(b) ==
    [b EXCEPT !.write_pos_ = 0, !.read_pos_ = 0, !.data_size_ = 0]

\* skip that trusts count
RbSkip_unclamped(b, count) ==
    [b EXCEPT !.read_pos_ = (b.read_pos_ + count) % RingCap,
              !.data_size_ = b.data_size_ - count]

\* CircularBuffer::skip
RbSkip(b, count) ==
    LET to_skip == Min(count, b.data_size_)
    IN  [b EXCEPT !.read_pos_ = (b.read_pos_ + to_skip) % RingCap,
                  !.data_size_ = b.data_size_ - to_skip]

\* the first n elements of q, all of q if it has fewer
Front(q, n) == SubSeq(q, 1, Min(n, Len(q)))

\* q without its first n elements
Rest(q, n) == SubSeq(q, Min(n, Len(q)) + 1, Len(q))

RingInit == DeviceOff /\ CodecOff /\ RingNew /\ HbOff

\* write(data, size)
RingWrite(data) ==
    /\ rb' = RbWrite(rb, data).b
    /\ rb_ret' = RbWrite(rb, data).ret
    /\ rb_out' = <<>>
    /\ rb_op' = "write"
    /\ rb_twin' = RbWrite(rb_twin, data).b
    /\ rb_twin_out' = <<>>
    /\ rb_fifo' = rb_fifo \o Front(data, RingCap - Len(rb_fifo))
    /\ rb_want' = [out |-> <<>>,
                   ret |-> Min(Len(data), RingCap - Len(rb_fifo))]
    /\ UNCHANGED <<deviceVars, codecVars, hbVars>>

\* read(data, size); the twin is given peek(data, size), then skip(size)
RingRead(size) ==
    /\ rb' = RbRead(rb, size).b
    /\ rb_out' = RbRead(rb, size).out
    /\ rb_ret' = RbRead(rb, size).ret
    /\ rb_op' = "read"
    /\ rb_twin' = RbSkip(rb_twin, size)
    /\ rb_twin_out' = RbPeek(rb_twin, size).out
    /\ rb_fifo' = Rest(rb_fifo, size)
    /\ rb_want' = [out |-> Front(rb_fifo, size),
                   ret |-> Min(size, Len(rb_fifo))]
    /\ UNCHANGED <<deviceVars, codecVars, hbVars>>

\* peek(data, size)
RingPeek(size) ==
    /\ rb_out' = RbPeek(rb, size).out
    /\ rb_ret' = RbPeek(rb, size).ret
    /\ rb_op' = "peek"
    /\ rb_twin_out' = RbPeek(rb_twin, size).out
    /\ rb_want' = [out |-> Front(rb_fifo, size),
                   ret |-> Min(size, Len(rb_fifo))]
    /\ UNCHANGED <<rb, rb_twin, rb_fifo>>
    /\ UNCHANGED <<deviceVars, codecVars, hbVars>>

\* skip(count)
RingSkip(count) ==
    /\ rb' = RbSkip(rb, count)
    /\ rb_out' = <<>>
    /\ rb_ret' = 0
    /\ rb_op' = "skip"
    /\ rb_twin' = RbSkip(rb_twin, count)
    /\ rb_twin_out' = <<>>
    /\ rb_fifo' = Rest(rb_fifo, count)
    /\ rb_want' = NoWant
    /\ UNCHANGED <<deviceVars, codecVars, hbVars>>

\* clear()
RingClear ==
    /\ rb' = RbClear(rb)
    /\ rb_out' = <<>>
    /\ rb_ret' = 0
    /\ rb_op' = "clear"
    /\ rb_twin' = RbClear(rb_twin)
    /\ rb_twin_out' = <<>>
    /\ rb_fifo' = <<>>
    /\ rb_want' = NoWant
    /\ UNCHANGED <<deviceVars, codecVars, hbVars>>

RingNext ==
    \/ \E data \in RingData : RingWrite(data)
    \/ \E size \in RingSizes : RingRead(size)
    \/ \E size \in RingSizes : RingPeek(size)
    \/ \E count \in RingSizes : RingSkip(count)
    \/ RingClear

RingSpec == RingInit /\ [][RingNext]_vars

RingTypeOK ==
    /\ rb.write_pos_ \in 0..(RingCap - 1)
    /\ rb.read_pos_ \in 0..(RingCap - 1)
    /\ rb_ret \in 0..RingCap
    /\ Len(rb_out) <= RingCap

\* the bytes stored in b, oldest first
Content(b) ==
    [i \in 1..b.data_size_ |-> b.buffer_[(b.read_pos_ + i - 1) % RingCap]]

\* C17: after any sequence of write, read, peek, skip and clear the stored
\* size satisfies 0 <= size <= capacity and
\* size == (write_pos - read_pos) mod capacity, also when the buffer is full.
C17_SizeIsPosDifference ==
    /\ 0 <= rb.data_size_
    /\ rb.data_size_ <= RingCap
    /\ rb.data_size_ = (rb.write_pos_ - rb.read_pos_ + RingCap) % RingCap

\* C17 as the code has it: 0 <= size <= capacity, and size equals
\* (write_pos - read_pos) mod capacity unless the buffer is full, when
\* write_pos == read_pos and size == capacity.
C17_SizeIsPosDifferenceOrFull ==
    /\ 0 <= rb.data_size_
    /\ rb.data_size_ <= RingCap
    /\ rb.data_size_ < RingCap =>
          rb.data_size_ = (rb.write_pos_ - rb.read_pos_ + RingCap) % RingCap
    /\ rb.data_size_ = RingCap => rb.write_pos_ = rb.read_pos_

\* the buffer is full after its positions have moved on from 0
C17_Witness ==
    /\ rb.data_size_ = RingCap
    /\ rb.write_pos_ = rb.read_pos_
    /\ rb.read_pos_ # 0
    /\ rb_op = "write"

\* C18: the ring buffer is a bounded FIFO queue of bytes: write accepts
\* exactly the first min(n, capacity - size) bytes and overwrites no unread
\* byte, and read returns exactly the oldest accepted and unconsumed bytes in
\* the order they were written, also when they wrap around the end of the
\* storage.
C18_BoundedFifo ==
    /\ Content(rb) = rb_fifo
    /\ rb_op \in {"write", "read", "peek"} => rb_ret = rb_want.ret
    /\ rb_op \in {"read", "peek"} => rb_out = rb_want.out

\* a read has returned a full buffer of bytes that lay across the end of the
\* storage: two different bytes, the newer ones stored in front of the older
C18_Witness ==
    /\ rb_op = "read"
    /\ Len(rb_out) = RingCap
    /\ rb.read_pos_ # 0
    /\ rb_out[1] # rb_out[RingCap]
    /\ rb_out = rb_want.out

\* C19: for every buffer state and every n, also n larger than the buffered
\* size, peek(n) followed by skip(n) returns the same bytes and leaves the
\* buffer in the same state as read(n); peek alone changes nothing.
C19_PeekSkipIsRead ==
    /\ [](rb_twin = rb /\ rb_twin_out = rb_out)
    /\ [][rb_op' = "peek" => rb' = rb]_vars

\* read(n) with n larger than the buffered size has returned bytes that lay
\* across the end of the storage, and so has the twin's peek(n)
C19_Witness ==
    /\ rb_op = "read"
    /\ rb_out # <<>>
    /\ rb_ret = Len(rb_out)
    /\ rb_ret < RingCap
    /\ rb.data_size_ = 0
    /\ rb.read_pos_ # 0
    /\ rb.read_pos_ < rb_ret
    /\ rb_twin_out = rb_out

(***************************************************************************)
(* heartbeat_runner_t (src/heartbeat/heartbeat_runner.cpp): one            *)
(* controlling thread calls start, stop, pause, resume and the accessors;  *)
(* the threads that start() creates run _run_loop                          *)
(***************************************************************************)
HbErr(msg) == Err([code |-> "device_error", msg |-> msg])

\* the configurations the runner is built with (interval and timeout do not
\* decide any step)
HbConfigs == [max_failures : {1, 3}, auto_reset_failures : BOOLEAN]

\* the threads that are running _run_loop
LiveWorkers == {w \in 1..MaxWorkers : hb_pc[w] \notin {"none", "exited"}}

\* the thread a new std::thread becomes
FreshThread ==
    CHOOSE w \in 1..MaxWorkers :
        /\ hb_pc[w] = "none"
        /\ \A v \in 1..(w - 1) : hb_pc[v] # "none"

\* m_cv.notify_all(): every thread blocked in a wait evaluates its predicate
\* again
NotifyAll(pcs) ==
    [w \in 1..MaxWorkers |->
        IF pcs[w] = "paused_block" THEN "paused_wait"
        ELSE IF pcs[w] = "interval_block" THEN "interval_wait"
        ELSE pcs[w]]

\* a call of the controlling thread returns
HbReturns(name, value) ==
    /\ hb_op' = name
    /\ hb_ret' = value
    /\ hb_tick' = 1 - hb_tick
    /\ hb_cb' = "none"

\* a call of the controlling thread returns after _trigger_callback(event)
HbReturnsAfter(name, value, event) ==
    /\ hb_op' = name
    /\ hb_ret' = value
    /\ hb_tick' = 1 - hb_tick
    /\ hb_cb' = event

\* an access to one of m_config, m_callback, m_last_error
Access(by, field, kind, locked) ==
    [by |-> by, field |-> field, kind |-> kind, locked |-> locked]

\* what no step of the runner changes
hbFixed ==
    <<deviceVars, codecVars, ringVars, concVars, textVars, m_strategy,
      hb_config>>

hbFlags == <<m_running, m_paused, m_stop_requested, m_thread>>

hbCounters == <<m_failure_count, m_success_count, m_total_failures>>

hbCall == <<hb_op, hb_ret, hb_tick, hb_cb>>

hbCycle == <<hb_loc, hb_cycles, hb_events, hb_all_failed>>

HbInit ==
    /\ DeviceOff
    /\ CodecOff
    /\ RingNew
    /\ m_strategy \in BOOLEAN
    /\ hb_config \in {c \in HbConfigs : c.auto_reset_failures}
    /\ HbNew

\* start() without the check of m_running
HbStart_no_running_check ==
    /\ hb_ctl = "idle"
    /\ \E w \in 1..MaxWorkers : hb_pc[w] = "none"
    /\ IF ~m_strategy
       THEN /\ HbReturns("start", HbErr("No heartbeat strategy configured"))
            /\ UNCHANGED <<m_running, m_paused, m_stop_requested, m_thread,
                           hb_pc>>
       ELSE /\ m_running' = TRUE
            /\ m_paused' = FALSE
            /\ m_stop_requested' = FALSE
            /\ m_thread' = FreshThread
            /\ hb_pc' = [hb_pc EXCEPT ![FreshThread] = "loop"]
            /\ HbReturns("start", OkVoid)
    /\ UNCHANGED <<hb_ctl, m_mutex, hb_access, hbCounters, hbCycle, hbFixed>>

\* start()
HbStart ==
    /\ hb_ctl = "idle"
    /\ \E w \in 1..MaxWorkers : hb_pc[w] = "none"
    /\ IF m_running
       THEN /\ HbReturns("start", HbErr("Heartbeat already running"))
            /\ UNCHANGED <<m_running, m_paused, m_stop_requested, m_thread,
                           hb_pc>>
       ELSE IF ~m_strategy
       THEN /\ HbReturns("start", HbErr("No heartbeat strategy configured"))
            /\ UNCHANGED <<m_running, m_paused, m_stop_requested, m_thread,
                           hb_pc>>
       ELSE /\ m_running' = TRUE
            /\ m_paused' = FALSE
            /\ m_stop_requested' = FALSE
            /\ m_thread' = FreshThread
            /\ hb_pc' = [hb_pc EXCEPT ![FreshThread] = "loop"]
            /\ HbReturns("start", OkVoid)
    /\ UNCHANGED <<hb_ctl, m_mutex, hb_access, hbCounters, hbCycle, hbFixed>>

\* stop() up to the join: returns at once if not running, else requests the
\* stop and notifies; the mutex is not taken
HbStop ==
    /\ hb_ctl = "idle"
    /\ IF ~m_running
       THEN /\ HbReturns("stop", OkVoid)
            /\ UNCHANGED <<m_stop_requested, hb_pc, hb_ctl>>
       ELSE /\ m_stop_requested' = TRUE
            /\ hb_pc' = NotifyAll(hb_pc)
            /\ hb_ctl' = "stop_join"
            /\ UNCHANGED hbCall
    /\ UNCHANGED <<m_running, m_paused, m_thread>>
    /\ UNCHANGED <<m_mutex, hb_access, hbCounters, hbCycle, hbFixed>>

\* stop() that does not wait for the thread to leave _run_loop
HbStopJoin_no_join ==
    /\ hb_ctl = "stop_join"
    /\ m_mutex = 0
    /\ m_running' = FALSE
    /\ m_paused' = FALSE
    /\ UNCHANGED hb_pc
    /\ m_thread' = 0
    /\ hb_ctl' = "idle"
    /\ hb_access' = Access("caller", "callback", "read", TRUE)
    /\ HbReturnsAfter("stop", OkVoid, "stopped")
    /\ UNCHANGED <<m_stop_requested, m_mutex, hbCounters, hbCycle, hbFixed>>

\* stop() from the join on: m_thread->join() returns once the thread has
\* left _run_loop; then the flags are cleared and the stopped event is given
\* to the callback under the mutex
HbStopJoin ==
    /\ hb_ctl = "stop_join"
    /\ m_thread # 0 => hb_pc[m_thread] = "exited"
    /\ m_mutex = 0
    /\ m_running' = FALSE
    /\ m_paused' = FALSE
    /\ hb_pc' = IF m_thread = 0 THEN hb_pc
                ELSE [hb_pc EXCEPT ![m_thread] = "none"]
    /\ m_thread' = 0
    /\ hb_ctl' = "idle"
    /\ hb_access' = Access("caller", "callback", "read", TRUE)
    /\ HbReturnsAfter("stop", OkVoid, "stopped")
    /\ UNCHANGED <<m_stop_requested, m_mutex, hbCounters, hbCycle, hbFixed>>

\* pause() up to the callback: the flag is stored without the mutex
HbPause ==
    /\ hb_ctl = "idle"
    /\ IF ~m_running \/ m_paused
       THEN /\ HbReturns("pause", OkVoid)
            /\ UNCHANGED <<m_paused, hb_ctl>>
       ELSE /\ m_paused' = TRUE
            /\ hb_ctl' = "pause_cb"
            /\ UNCHANGED hbCall
    /\ UNCHANGED <<m_running, m_stop_requested, m_thread, hb_pc>>
    /\ UNCHANGED <<m_mutex, hb_access, hbCounters, hbCycle, hbFixed>>

\* pause(): _trigger_callback(paused) under the mutex, then return
HbPauseCallback ==
    /\ hb_ctl = "pause_cb"
    /\ m_mutex = 0
    /\ hb_ctl' = "idle"
    /\ hb_access' = Access("caller", "callback", "read", TRUE)
    /\ HbReturnsAfter("pause", OkVoid, "paused")
    /\ UNCHANGED <<hbFlags, hb_pc, m_mutex, hbCounters, hbCycle, hbFixed>>

\* resume() up to the callback: the flag is stored and the condition
\* notified without the mutex
HbResume ==
    /\ hb_ctl = "idle"
    /\ IF ~m_running \/ ~m_paused
       THEN /\ HbReturns("resume", OkVoid)
            /\ UNCHANGED <<m_paused, hb_pc, hb_ctl>>
       ELSE /\ m_paused' = FALSE
            /\ hb_pc' = NotifyAll(hb_pc)
            /\ hb_ctl' = "resume_cb"
            /\ UNCHANGED hbCall
    /\ UNCHANGED <<m_running, m_stop_requested, m_thread>>
    /\ UNCHANGED <<m_mutex, hb_access, hbCounters, hbCycle, hbFixed>>

\* resume(): _trigger_callback(resumed) under the mutex, then return
HbResumeCallback ==
    /\ hb_ctl = "resume_cb"
    /\ m_mutex = 0
    /\ hb_ctl' = "idle"
    /\ hb_access' = Access("caller", "callback", "read", TRUE)
    /\ HbReturnsAfter("resume", OkVoid, "resumed")
    /\ UNCHANGED <<hbFlags, hb_pc, m_mutex, hbCounters, hbCycle, hbFixed>>

\* a call of an accessor by the controlling thread
Accessor(name, field, kind, locked) ==
    /\ hb_ctl = "idle"
    /\ locked => m_mutex = 0
    /\ hb_access' = Access("caller", field, kind, locked)
    /\ HbReturns(name, OkVoid)
    /\ UNCHANGED <<hbFlags, hb_pc, hb_ctl, m_mutex, hbCounters, hbCycle,
                   hbFixed>>

\* set_interval(): writes m_config.interval under the mutex
HbSetInterval == Accessor("set_interval", "config", "write", TRUE)

\* config(): hands out m_config without taking the mutex
HbGetConfig == Accessor("config", "config", "read", FALSE)

\* last_error(): copies m_last_error under the mutex
HbLastError == Accessor("last_error", "last_error", "read", TRUE)

\* thread w goes from `from` to `to`
WorkerStep(w, from, to) ==
    /\ hb_pc[w] = from
    /\ hb_pc' = [hb_pc EXCEPT ![w] = to]
    /\ UNCHANGED <<hbFlags, hb_ctl, hbCall, hbFixed>>

\* what a step of _run_loop outside the heartbeat cycle leaves alone
OutsideCycle == UNCHANGED <<hb_access, hbCounters, hbCycle>>

\* _run_loop: while (!m_stop_requested)
WLoop(w) ==
    /\ WorkerStep(w, "loop",
                  IF m_stop_requested THEN "exited" ELSE "paused_wait")
    /\ UNCHANGED m_mutex
    /\ OutsideCycle

\* _run_loop: m_cv.wait with the predicate !m_paused || m_stop_requested
\* without the separation of the predicate from the wait
WPausedWait_blocks_at_once(w) ==
    /\ m_mutex = 0
    /\ WorkerStep(w, "paused_wait",
                  IF ~m_paused \/ m_stop_requested THEN "stop_check"
                  ELSE "paused_block")
    /\ UNCHANGED m_mutex
    /\ OutsideCycle

\* _run_loop: m_cv.wait with the predicate !m_paused || m_stop_requested:
\* the thread takes the mutex (again, after a wake-up) and evaluates the
\* predicate; if it is false the thread is about to wait, the mutex held
WPausedWait(w) ==
    /\ m_mutex = 0
    /\ WorkerStep(w, "paused_wait",
                  IF ~m_paused \/ m_stop_requested THEN "stop_check"
                  ELSE "paused_enter")
    /\ m_mutex' = IF ~m_paused \/ m_stop_requested THEN 0 ELSE w
    /\ OutsideCycle

\* _run_loop: condition_variable::wait releases the mutex and blocks
WPausedBlock(w) ==
    /\ WorkerStep(w, "paused_enter", "paused_block")
    /\ m_mutex' = 0
    /\ OutsideCycle

\* _run_loop: if (m_stop_requested) break
WStopCheck(w) ==
    /\ WorkerStep(w, "stop_check",
                  IF m_stop_requested THEN "exited" ELSE "beat")
    /\ UNCHANGED m_mutex
    /\ OutsideCycle

\* the locals of thread w after a heartbeat that failed
Failed(w) == [hb_loc EXCEPT ![w].success = FALSE]

\* fetch_add(1) that adds nothing
CountUp_stuck(n) == n

\* fetch_add(1) on a 64-bit counter of which the low bits are kept
CountUp(n) == (n + 1) % CountMod

\* _run_loop: the copy of m_config under the mutex, before _do_heartbeat
WBeat(w) ==
    /\ m_mutex = 0
    /\ WorkerStep(w, "beat", "do_heartbeat")
    /\ hb_access' = Access("worker", "config", "read", TRUE)
    /\ hb_events' = <<>>
    /\ hb_loc' = [hb_loc EXCEPT ![w] = NoLocals]
    /\ UNCHANGED <<m_mutex, hbCounters, hb_cycles, hb_all_failed>>

\* _do_heartbeat: the device is not connected, m_last_error is set and the
\* heartbeat has failed; or it is connected and m_config is copied under the
\* mutex
WDoHeartbeat(w) ==
    /\ \E connected \in BOOLEAN :
          IF ~connected
          THEN /\ WorkerStep(w, "do_heartbeat", "classify")
               /\ hb_access' = Access("worker", "last_error", "write", FALSE)
               /\ hb_loc' = [hb_loc EXCEPT ![w].success = FALSE,
                                           ![w].connected = FALSE]
          ELSE /\ m_mutex = 0
               /\ WorkerStep(w, "do_heartbeat", "make_command")
               /\ hb_access' = Access("worker", "config", "read", TRUE)
               /\ UNCHANGED hb_loc
    /\ UNCHANGED <<m_mutex, hbCounters, hb_cycles, hb_events, hb_all_failed>>

\* _do_heartbeat: m_strategy->make_heartbeat_command()
WMakeCommand(w) ==
    /\ \E made \in BOOLEAN :
          IF made
          THEN /\ WorkerStep(w, "make_command", "execute")
               /\ UNCHANGED <<hb_access, hb_loc>>
          ELSE /\ WorkerStep(w, "make_command", "classify")
               /\ hb_access' = Access("worker", "last_error", "write", FALSE)
               /\ hb_loc' = Failed(w)
    /\ UNCHANGED <<m_mutex, hbCounters, hb_cycles, hb_events, hb_all_failed>>

\* _do_heartbeat: m_device.execute is called
WExecute(w) ==
    /\ WorkerStep(w, "execute", "executing")
    /\ hb_loc' = [hb_loc EXCEPT ![w].executed = TRUE]
    /\ UNCHANGED <<m_mutex, hb_access, hbCounters, hb_cycles, hb_events,
                   hb_all_failed>>

\* _do_heartbeat: m_device.execute has returned, with an error, or with a
\* response that validate_response rejects or accepts
WExecuteReturns(w) ==
    /\ WorkerStep(w, "executing", "classify")
    /\ \E outcome \in {"error", "invalid", "valid"} :
          IF outcome = "valid"
          THEN /\ hb_loc' = [hb_loc EXCEPT ![w].success = TRUE]
               /\ UNCHANGED hb_access
          ELSE /\ hb_loc' = Failed(w)
               /\ hb_access' = Access("worker", "last_error", "write", FALSE)
    /\ UNCHANGED <<m_mutex, hbCounters, hb_cycles, hb_events, hb_all_failed>>

\* the event of a failed cycle, with the else missing: failure always
FailureEvent_always_failure(failures) == "failure"

\* the event of a failed cycle that left the failure count at `failures`
FailureEvent(failures) ==
    IF failures >= hb_config.max_failures THEN "max_failures" ELSE "failure"

\* _run_loop: the counters of the cycle and the choice of its event
WClassify(w) ==
    /\ WorkerStep(w, "classify", "emit")
    /\ IF hb_loc[w].success
       THEN /\ m_success_count' = CountUp(m_success_count)
            /\ m_failure_count' =
                  IF hb_config.auto_reset_failures THEN 0
                  ELSE m_failure_count
            /\ hb_loc' = [hb_loc EXCEPT ![w].event = "success",
                                        ![w].failures = 0]
            /\ hb_all_failed' = FALSE
            /\ UNCHANGED m_total_failures
       ELSE /\ m_failure_count' = (m_failure_count + 1) % UINT8_RANGE
            /\ m_total_failures' = CountUp(m_total_failures)
            /\ hb_loc' =
                  [hb_loc EXCEPT
                      ![w].failures = (m_failure_count + 1) % UINT8_RANGE,
                      ![w].event =
                          FailureEvent((m_failure_count + 1) % UINT8_RANGE)]
            /\ UNCHANGED <<m_success_count, hb_all_failed>>
    /\ hb_cycles' = (hb_cycles + 1) % CycleMod
    /\ UNCHANGED <<m_mutex, hb_access, hb_events>>

\* _run_loop: _trigger_callback with the event of the cycle, under the
\* mutex; after a max_failures event the failure count is reset if
\* auto_reset_failures
WEmit(w) ==
    /\ m_mutex = 0
    /\ WorkerStep(w, "emit", "after_beat")
    /\ hb_access' = Access("worker", "callback", "read", TRUE)
    /\ hb_events' = Append(hb_events,
                           [event |-> hb_loc[w].event,
                            failure_count |-> hb_loc[w].failures])
    /\ m_failure_count' =
          IF hb_loc[w].event = "max_failures"
             /\ hb_config.auto_reset_failures
          THEN 0 ELSE m_failure_count
    /\ UNCHANGED <<m_mutex, m_success_count, m_total_failures, hb_loc,
                   hb_cycles, hb_all_failed>>

\* _run_loop: if (!m_stop_requested) before the wait for the interval
WAfterBeat(w) ==
    /\ WorkerStep(w, "after_beat",
                  IF m_stop_requested THEN "loop" ELSE "interval_wait")
    /\ UNCHANGED m_mutex
    /\ OutsideCycle

\* _run_loop: m_cv.wait_for with the predicate m_stop_requested: the thread
\* takes the mutex and evaluates the predicate
WIntervalWait(w) ==
    /\ m_mutex = 0
    /\ WorkerStep(w, "interval_wait",
                  IF m_stop_requested THEN "loop" ELSE "interval_enter")
    /\ m_mutex' = IF m_stop_requested THEN 0 ELSE w
    /\ OutsideCycle

\* _run_loop: condition_variable::wait_for releases the mutex and blocks
WIntervalBlock(w) ==
    /\ WorkerStep(w, "interval_enter", "interval_block")
    /\ m_mutex' = 0
    /\ OutsideCycle

\* _run_loop: the interval has passed; the thread takes the mutex again and
\* goes on
WIntervalTimeout(w) ==
    /\ m_mutex = 0
    /\ WorkerStep(w, "interval_block", "loop")
    /\ UNCHANGED m_mutex
    /\ OutsideCycle

\* a blocked thread wakes up without a notification, as a condition variable
\* allows, and evaluates its predicate again
WSpuriousWake(w) ==
    /\ hb_pc[w] \in {"paused_block", "interval_block"}
    /\ WorkerStep(w, hb_pc[w],
                  IF hb_pc[w] = "paused_block" THEN "paused_wait"
                  ELSE "interval_wait")
    /\ UNCHANGED m_mutex
    /\ OutsideCycle

\* the steps the scheduler gives a thread in _run_loop
WorkerRuns ==
    \E w \in 1..MaxWorkers :
        \/ WLoop(w)
        \/ WPausedWait(w)
        \/ WPausedBlock(w)
        \/ WStopCheck(w)
        \/ WBeat(w)
        \/ WDoHeartbeat(w)
        \/ WMakeCommand(w)
        \/ WExecute(w)
        \/ WExecuteReturns(w)
        \/ WClassify(w)
        \/ WEmit(w)
        \/ WAfterBeat(w)
        \/ WIntervalWait(w)
        \/ WIntervalBlock(w)
        \/ WIntervalTimeout(w)

\* the steps that finish a call the controlling thread is in
CallGoesOn == HbStopJoin \/ HbPauseCallback \/ HbResumeCallback

HbNext ==
    \/ HbStart
    \/ HbStop
    \/ HbStopJoin
    \/ HbPause
    \/ HbPauseCallback
    \/ HbResume
    \/ HbResumeCallback
    \/ HbSetInterval
    \/ HbGetConfig
    \/ HbLastError
    \/ \E w \in 1..MaxWorkers : WLoop(w)
    \/ \E w \in 1..MaxWorkers : WPausedWait(w)
    \/ \E w \in 1..MaxWorkers : WPausedBlock(w)
    \/ \E w \in 1..MaxWorkers : WStopCheck(w)
    \/ \E w \in 1..MaxWorkers : WBeat(w)
    \/ \E w \in 1..MaxWorkers : WDoHeartbeat(w)
    \/ \E w \in 1..MaxWorkers : WMakeCommand(w)
    \/ \E w \in 1..MaxWorkers : WExecute(w)
    \/ \E w \in 1..MaxWorkers : WExecuteReturns(w)
    \/ \E w \in 1..MaxWorkers : WClassify(w)
    \/ \E w \in 1..MaxWorkers : WEmit(w)
    \/ \E w \in 1..MaxWorkers : WAfterBeat(w)
    \/ \E w \in 1..MaxWorkers : WIntervalWait(w)
    \/ \E w \in 1..MaxWorkers : WIntervalBlock(w)
    \/ \E w \in 1..MaxWorkers : WIntervalTimeout(w)
    \/ \E w \in 1..MaxWorkers : WSpuriousWake(w)

HbSpec == HbInit /\ [][HbNext]_vars

\* every thread that can take a step of _run_loop takes one in the end, and
\* so does the controlling thread inside a call; the interval of wait_for
\* runs out however often the thread wakes up before; no wake-up without a
\* notification is assumed
HbFairSpec ==
    /\ HbInit
    /\ [][HbNext]_vars
    /\ WF_vars(WorkerRuns)
    /\ WF_vars(CallGoesOn)
    /\ \A w \in 1..MaxWorkers : SF_vars(WIntervalTimeout(w))

\* a runner that keeps its failure count (auto_reset_failures = false),
\* started and left to run
WrapInit ==
    /\ DeviceOff
    /\ CodecOff
    /\ RingNew
    /\ m_strategy = TRUE
    /\ hb_config \in {c \in HbConfigs : ~c.auto_reset_failures}
    /\ HbNew

WrapNext ==
    \/ HbStart
    \/ \E w \in 1..MaxWorkers : WLoop(w)
    \/ \E w \in 1..MaxWorkers : WPausedWait(w)
    \/ \E w \in 1..MaxWorkers : WStopCheck(w)
    \/ \E w \in 1..MaxWorkers : WBeat(w)
    \/ \E w \in 1..MaxWorkers : WDoHeartbeat(w)
    \/ \E w \in 1..MaxWorkers : WMakeCommand(w)
    \/ \E w \in 1..MaxWorkers : WExecute(w)
    \/ \E w \in 1..MaxWorkers : WExecuteReturns(w)
    \/ \E w \in 1..MaxWorkers : WClassify(w)
    \/ \E w \in 1..MaxWorkers : WEmit(w)
    \/ \E w \in 1..MaxWorkers : WAfterBeat(w)
    \/ \E w \in 1..MaxWorkers : WIntervalWait(w)
    \/ \E w \in 1..MaxWorkers : WIntervalBlock(w)
    \/ \E w \in 1..MaxWorkers : WIntervalTimeout(w)

WrapSpec == WrapInit /\ [][WrapNext]_vars

(***************************************************************************)
(* A callback that calls a method of its own runner.  _trigger_callback    *)
(* holds m_mutex, a std::mutex, while it calls m_callback; set_config,     *)
(* set_interval, set_timeout, set_max_failures, set_callback,              *)
(* clear_callback and last_error each begin with a lock_guard on the same  *)
(* mutex.  Locking a std::mutex the thread already owns is undefined: the  *)
(* thread blocks for ever, or lock() throws std::system_error              *)
(* (resource_deadlock_would_occur), which the try/catch of                 *)
(* _trigger_callback catches.                                              *)
(***************************************************************************)

\* the controlling thread as an owner of m_mutex
CallerThread == MaxWorkers + 1

\* the calls of the controlling thread that end with _trigger_callback
CbCalls == {"pause_cb", "resume_cb", "stop_cb"}

CbCallName == [pause_cb |-> "pause", resume_cb |-> "resume",
               stop_cb |-> "stop"]

CbCallEvent == [pause_cb |-> "paused", resume_cb |-> "resumed",
                stop_cb |-> "stopped"]

\* the controlling thread inside m_callback
CbIn == [pause_cb |-> "pause_in", resume_cb |-> "resume_in",
         stop_cb |-> "stop_in"]

\* the controlling thread inside the lock_guard of the method the callback
\* calls
CbWait == [pause_cb |-> "pause_relock", resume_cb |-> "resume_relock",
           stop_cb |-> "stop_relock"]

CbInside == {CbIn[c] : c \in CbCalls}

CbBlocked == {CbWait[c] : c \in CbCalls}

\* _trigger_callback in _run_loop: lock_guard, then m_callback(event, ...)
WCallback(w) ==
    /\ m_mutex = 0
    /\ WorkerStep(w, "emit", "callback")
    /\ m_mutex' = w
    /\ hb_access' = Access("worker", "callback", "read", TRUE)
    /\ hb_events' = Append(hb_events,
                           [event |-> hb_loc[w].event,
                            failure_count |-> hb_loc[w].failures])
    /\ UNCHANGED <<hbCounters, hb_loc, hb_cycles, hb_all_failed>>

\* the callback calls set_interval(): lock_guard on the mutex thread w owns
\* blocks
WRelockBlocks(w) ==
    /\ m_mutex = w
    /\ WorkerStep(w, "callback", "relock")
    /\ UNCHANGED m_mutex
    /\ OutsideCycle

\* the callback calls set_interval(): lock_guard on the mutex thread w owns
\* throws; _trigger_callback catches, releases the mutex and returns to
\* _run_loop
WRelockThrows(w) ==
    /\ m_mutex = w
    /\ WorkerStep(w, "callback", "after_beat")
    /\ m_mutex' = 0
    /\ m_failure_count' =
          IF hb_loc[w].event = "max_failures"
             /\ hb_config.auto_reset_failures
          THEN 0 ELSE m_failure_count
    /\ UNCHANGED <<hb_access, m_success_count, m_total_failures, hbCycle>>

\* stop() from the join to the callback
CbStopJoin ==
    /\ hb_ctl = "stop_join"
    /\ m_thread # 0 => hb_pc[m_thread] = "exited"
    /\ m_running' = FALSE
    /\ m_paused' = FALSE
    /\ hb_pc' = IF m_thread = 0 THEN hb_pc
                ELSE [hb_pc EXCEPT ![m_thread] = "none"]
    /\ m_thread' = 0
    /\ hb_ctl' = "stop_cb"
    /\ UNCHANGED <<m_stop_requested, hbCall, m_mutex, hb_access, hbCounters,
                   hbCycle, hbFixed>>

\* _trigger_callback in pause(), resume() and stop(): lock_guard, then
\* m_callback(event, ...)
CbCallerCallback ==
    /\ hb_ctl \in CbCalls
    /\ m_mutex = 0
    /\ m_mutex' = CallerThread
    /\ hb_ctl' = CbIn[hb_ctl]
    /\ hb_access' = Access("caller", "callback", "read", TRUE)
    /\ UNCHANGED <<hbFlags, hb_pc, hbCall, hbCounters, hbCycle, hbFixed>>

\* the callback calls set_interval() in the controlling thread: the
\* lock_guard blocks
CbCallerRelockBlocks ==
    /\ \E c \in CbCalls : hb_ctl = CbIn[c] /\ hb_ctl' = CbWait[c]
    /\ m_mutex = CallerThread
    /\ UNCHANGED <<hbFlags, hb_pc, hbCall, m_mutex, hb_access, hbCounters,
                   hbCycle, hbFixed>>

\* the callback calls set_interval() in the controlling thread: the
\* lock_guard throws, _trigger_callback catches and the call returns
CbCallerRelockThrows ==
    /\ \E c \in CbCalls :
           /\ hb_ctl = CbIn[c]
           /\ HbReturnsAfter(CbCallName[c], OkVoid, CbCallEvent[c])
    /\ m_mutex = CallerThread
    /\ m_mutex' = 0
    /\ hb_ctl' = "idle"
    /\ UNCHANGED <<hbFlags, hb_pc, hb_access, hbCounters, hbCycle, hbFixed>>

CbWorkerRuns ==
    \E w \in 1..MaxWorkers :
        \/ WLoop(w)
        \/ WPausedWait(w)
        \/ WPausedBlock(w)
        \/ WStopCheck(w)
        \/ WBeat(w)
        \/ WDoHeartbeat(w)
        \/ WMakeCommand(w)
        \/ WExecute(w)
        \/ WExecuteReturns(w)
        \/ WClassify(w)
        \/ WCallback(w)
        \/ WRelockBlocks(w)
        \/ WRelockThrows(w)
        \/ WAfterBeat(w)
        \/ WIntervalWait(w)
        \/ WIntervalBlock(w)
        \/ WIntervalTimeout(w)

CbCallGoesOn ==
    \/ CbStopJoin
    \/ CbCallerCallback
    \/ CbCallerRelockBlocks
    \/ CbCallerRelockThrows

CbNext ==
    \/ HbStart
    \/ HbStop
    \/ CbStopJoin
    \/ HbPause
    \/ HbResume
    \/ CbCallerCallback
    \/ CbCallerRelockBlocks
    \/ CbCallerRelockThrows
    \/ \E w \in 1..MaxWorkers : WLoop(w)
    \/ \E w \in 1..MaxWorkers : WPausedWait(w)
    \/ \E w \in 1..MaxWorkers : WPausedBlock(w)
    \/ \E w \in 1..MaxWorkers : WStopCheck(w)
    \/ \E w \in 1..MaxWorkers : WBeat(w)
    \/ \E w \in 1..MaxWorkers : WDoHeartbeat(w)
    \/ \E w \in 1..MaxWorkers : WMakeCommand(w)
    \/ \E w \in 1..MaxWorkers : WExecute(w)
    \/ \E w \in 1..MaxWorkers : WExecuteReturns(w)
    \/ \E w \in 1..MaxWorkers : WClassify(w)
    \/ \E w \in 1..MaxWorkers : WCallback(w)
    \/ \E w \in 1..MaxWorkers : WRelockBlocks(w)
    \/ \E w \in 1..MaxWorkers : WRelockThrows(w)
    \/ \E w \in 1..MaxWorkers : WAfterBeat(w)
    \/ \E w \in 1..MaxWorkers : WIntervalWait(w)
    \/ \E w \in 1..MaxWorkers : WIntervalBlock(w)
    \/ \E w \in 1..MaxWorkers : WIntervalTimeout(w)
    \/ \E w \in 1..MaxWorkers : WSpuriousWake(w)

\* a runner whose callback calls set_interval() of the runner
CbSpec == HbInit /\ [][CbNext]_vars

\* the fairness of HbFairSpec
CbFairSpec ==
    /\ HbInit
    /\ [][CbNext]_vars
    /\ WF_vars(CbWorkerRuns)
    /\ WF_vars(CbCallGoesOn)
    /\ \A w \in 1..MaxWorkers : SF_vars(WIntervalTimeout(w))

(***************************************************************************)
(* device_impl_t::execute called by two threads.  The Device has no mutex: *)
(* the threads share m_state and the Transport, and each has the locals of *)
(* its own call.  The Device is configured with max_retries = 0 and        *)
(* auto_reconnect = false: one attempt, and _handle_error disconnects.     *)
(***************************************************************************)

\* ping_heartbeat_t::make_heartbeat_command: function code 0x00, no data
PingCommand == [fc |-> 0, data |-> <<>>]

\* the commands of the foreground caller
ForegroundCmds == {[fc |-> 3, data |-> <<>>], [fc |-> 5, data |-> <<1>>]}

\* the commands thread t gives to execute()
ThreadCmds(t) == IF t = "heartbeat" THEN {PingCommand} ELSE ForegroundCmds

\* the peer answers a command with a response of the same function code and
\* data
ReplyTo(cmd) == [fc |-> cmd.fc, data |-> cmd.data]

\* what an action of the shared Device leaves alone
ConcFixed == <<deviceVars, codecVars, ringVars, runnerVars, textVars>>

\* execute(): is_connected(), encode
CxExecute(t) ==
    /\ cx_pc[t] = "idle"
    /\ \E cmd \in ThreadCmds(t) :
          /\ cx_cmd' = [cx_cmd EXCEPT ![t] = cmd]
          /\ IF ~(cx_state = "connected" /\ cx_open)
             THEN /\ cx_ret' = [cx_ret EXCEPT ![t] = Err("not_connected")]
                  /\ cx_pc' = [cx_pc EXCEPT ![t] = "done"]
             ELSE IF ~encode(cmd).ok
             THEN /\ cx_ret' = [cx_ret EXCEPT ![t] = encode(cmd)]
                  /\ cx_pc' = [cx_pc EXCEPT ![t] = "done"]
             ELSE /\ cx_ret' = [cx_ret EXCEPT ![t] = NoRet]
                  /\ cx_pc' = [cx_pc EXCEPT ![t] = "write_all"]
    /\ UNCHANGED <<cx_state, cx_open, cx_wire, cx_rx, cx_buffer, ConcFixed>>

\* execute(): the only attempt has failed with e; _handle_error(e) calls
\* disconnect(), and execute returns e
CxFailed(t, e) ==
    /\ cx_open' = FALSE
    /\ cx_state' = "disconnected"
    /\ cx_ret' = [cx_ret EXCEPT ![t] = Err(e)]
    /\ cx_pc' = [cx_pc EXCEPT ![t] = "done"]
    /\ cx_buffer' = [cx_buffer EXCEPT ![t] = <<>>]

\* execute(): m_transport->write_all(frame)
CxWrite(t) ==
    /\ cx_pc[t] = "write_all"
    /\ IF ~cx_open
       THEN /\ CxFailed(t, "not_connected")
            /\ UNCHANGED cx_wire
       ELSE /\ cx_wire' = Append(cx_wire, encode(cx_cmd[t]).val)
            /\ cx_pc' = [cx_pc EXCEPT ![t] = "read_response"]
            /\ UNCHANGED <<cx_state, cx_open, cx_buffer, cx_ret>>
    /\ UNCHANGED <<cx_rx, cx_cmd, ConcFixed>>

\* the peer answers the oldest command it has received
CxPeer ==
    /\ cx_wire # <<>>
    /\ cx_rx' = cx_rx \o FrameOf(ReplyTo(decode(Head(cx_wire)).res.val))
    /\ cx_wire' = Tail(cx_wire)
    /\ UNCHANGED <<cx_state, cx_open, cx_pc, cx_cmd, cx_buffer, cx_ret,
                   ConcFixed>>

\* _read_response of thread t: a complete frame is buffered
CxFrameReady(t) ==
    /\ Len(cx_buffer[t]) > 0
    /\ frame_length(cx_buffer[t]) > 0
    /\ frame_length(cx_buffer[t]) <= Len(cx_buffer[t])

\* _read_response, loop iteration that decodes and returns; the ring buffer
\* ends with the call
CxDecode(t) ==
    /\ cx_pc[t] = "read_response"
    /\ CxFrameReady(t)
    /\ LET d == decode(SubSeq(cx_buffer[t], 1, frame_length(cx_buffer[t])))
       IN  IF d.res.ok
           THEN /\ cx_ret' = [cx_ret EXCEPT ![t] = d.res]
                /\ cx_pc' = [cx_pc EXCEPT ![t] = "done"]
                /\ cx_buffer' = [cx_buffer EXCEPT ![t] = <<>>]
                /\ UNCHANGED <<cx_state, cx_open>>
           ELSE CxFailed(t, d.res.err)
    /\ UNCHANGED <<cx_wire, cx_rx, cx_cmd, ConcFixed>>

\* _read_response, loop iteration that reads more bytes: Transport::read
\* gives some of the bytes that are there, and none (time-out) when none
\* are there and the peer has none to send
CxRead(t) ==
    /\ cx_pc[t] = "read_response"
    /\ ~CxFrameReady(t)
    /\ IF ~cx_open
       THEN /\ CxFailed(t, "not_connected")
            /\ UNCHANGED cx_rx
       ELSE IF cx_rx = <<>>
       THEN /\ cx_wire = <<>>
            /\ CxFailed(t, "timeout")
            /\ UNCHANGED cx_rx
       ELSE \E k \in 1..Min(TempSize, Len(cx_rx)) :
               /\ cx_rx' = SubSeq(cx_rx, k + 1, Len(cx_rx))
               /\ cx_buffer' =
                     [cx_buffer EXCEPT
                         ![t] = BufWrite(cx_buffer[t], SubSeq(cx_rx, 1, k))]
               /\ UNCHANGED <<cx_state, cx_open, cx_pc, cx_ret>>
    /\ UNCHANGED <<cx_wire, cx_cmd, ConcFixed>>

\* execute() has returned and the thread goes on
CxReturn(t) ==
    /\ cx_pc[t] = "done"
    /\ cx_pc' = [cx_pc EXCEPT ![t] = "idle"]
    /\ UNCHANGED <<cx_state, cx_open, cx_wire, cx_rx, cx_cmd, cx_buffer,
                   cx_ret, ConcFixed>>

ConcInit == DeviceOff /\ AuxOff

ConcNext ==
    \/ \E t \in Threads : CxExecute(t)
    \/ \E t \in Threads : CxWrite(t)
    \/ CxPeer
    \/ \E t \in Threads : CxDecode(t)
    \/ \E t \in Threads : CxRead(t)
    \/ \E t \in Threads : CxReturn(t)

\* the heartbeat worker and a foreground caller in execute() on one Device
ConcSpec == ConcInit /\ [][ConcNext]_vars

ConcTypeOK ==
    /\ cx_state \in {"connected", "disconnected"}
    /\ cx_open \in BOOLEAN
    /\ Len(cx_wire) <= 2
    /\ \A t \in Threads :
          /\ cx_pc[t] \in {"idle", "write_all", "read_response", "done"}
          /\ cx_cmd[t] \in ThreadCmds(t) \cup {NoCmd}
          /\ Len(cx_buffer[t]) <= MaxFrameSize

(***************************************************************************)
(* device_impl_t : write(text), read(), query()                            *)
(***************************************************************************)

\* command texts given to query(): "", "a", "a\n", "\n", "a\na", "a\r"
QueryTexts == {<<>>, <<97>>, <<97, LF>>, <<LF>>, <<97, LF, 97>>, <<97, CR>>}

\* a line of n bytes, the last of them '\n'
LineOf(n) == [i \in 1..n |-> IF i = n THEN LF ELSE 97]

\* texts the peer sends: every text of up to three bytes out of 'a', '\r'
\* and '\n', a line that fills the ring buffer and one that is a byte longer
TextInputs ==
    UNION {[1..n -> {97, CR, LF}] : n \in 0..3}
    \cup {LineOf(MaxFrameSize), LineOf(MaxFrameSize + 1)}

\* memchr(data, '\n', size): the position (from 1) of the first '\n', 0 if
\* there is none
NewlinePos(data) ==
    IF \E i \in 1..Len(data) : data[i] = LF
    THEN CHOOSE i \in 1..Len(data) :
             data[i] = LF /\ \A j \in 1..(i - 1) : data[j] # LF
    ELSE 0

\* read(): c != '\n' only
IsLineByte_keeps_cr(c) == c # LF

\* read(): c != '\r' && c != '\n'
IsLineByte(c) == c # CR /\ c # LF

\* read(): the bytes of the first line_len bytes that are copied to result
LineText(data, line_len) == SelectSeq(SubSeq(data, 1, line_len), IsLineByte)

\* query(): push_back('\n') if the command is empty or does not end with it
cmd_with_newline(command) ==
    IF command = <<>> \/ command[Len(command)] # LF
    THEN Append(command, LF)
    ELSE command

\* what read() and query() leave alone
TextFixed ==
    <<devVars, attempt, last_error, rc_attempt, opens, closes, events,
      exec_cmd, split_read, delayVars, codecVars, ringVars, runnerVars,
      concVars>>

\* read(): is_connected()
TextRead ==
    /\ StartCall("read")
    /\ txt_cmd' = <<>>
    /\ txt_written' = <<>>
    /\ txt_reads' = 1
    /\ write_alls' = 0
    /\ frame' = <<>>
    /\ total_written' = 0
    /\ buffer' = <<>>
    /\ IF ~is_connected
       THEN ret' = Err("not_connected") /\ pc' = "done"
       ELSE ret' = NoRet /\ pc' = "text_read"
    /\ UNCHANGED <<trVars, TextFixed>>

\* query(): is_connected(), the terminator, write() up to write_all
Query(command) ==
    /\ StartCall("query")
    /\ txt_cmd' = command
    /\ txt_written' = <<>>
    /\ txt_reads' = 0
    /\ total_written' = 0
    /\ buffer' = <<>>
    /\ IF ~is_connected
       THEN /\ ret' = Err("not_connected")
            /\ pc' = "done"
            /\ frame' = <<>>
            /\ write_alls' = 0
       ELSE /\ ret' = NoRet
            /\ pc' = "text_write"
            /\ frame' = cmd_with_newline(command)
            /\ write_alls' = 1
    /\ UNCHANGED <<trVars, TextFixed>>

\* write_all of query(), one iteration of its loop; after the last one
\* query() calls read()
TextWrite ==
    /\ pc = "text_write"
    /\ \E out \in WriteOutcomes(Len(frame) - total_written, total_written) :
          IF ~out.ok
          THEN /\ ret' = Err(out.err)
               /\ pc' = "done"
               /\ write_fails' = write_fails + 1
               /\ total_written' = 0
               /\ UNCHANGED <<txt_written, txt_reads>>
          ELSE /\ txt_written' =
                     txt_written
                     \o SubSeq(frame, total_written + 1,
                               total_written + out.val)
               /\ IF total_written + out.val < Len(frame)
                  THEN /\ total_written' = total_written + out.val
                       /\ pc' = "text_write"
                       /\ UNCHANGED <<ret, txt_reads>>
                  ELSE /\ total_written' = 0
                       /\ txt_reads' = txt_reads + 1
                       /\ IF ~is_connected
                          THEN ret' = Err("not_connected") /\ pc' = "done"
                          ELSE ret' = ret /\ pc' = "text_read"
               /\ UNCHANGED write_fails
    /\ UNCHANGED <<trVars, op, frame, buffer, pre_state, pre_open, pre_rx,
                   write_alls, read_called, read_faults, last_fail, txt_cmd,
                   TextFixed>>

\* read(), loop iteration that finds a '\n' in the ring buffer and returns
\* the line
TextLine ==
    /\ pc = "text_read"
    /\ NewlinePos(buffer) > 0
    /\ ret' = Ok(LineText(buffer, NewlinePos(buffer)))
    /\ buffer' = BufConsume(buffer, NewlinePos(buffer))
    /\ pc' = "done"
    /\ UNCHANGED <<trVars, op, frame, total_written, pre_state, pre_open,
                   pre_rx, write_alls, read_called, write_fails, read_faults,
                   last_fail, textVars, TextFixed>>

\* read(), loop iteration that reads more bytes
TextReadMore ==
    /\ pc = "text_read"
    /\ NewlinePos(buffer) = 0
    /\ read_called' = TRUE
    /\ \E out \in ReadOutcomes :
          IF ~out.ok
          THEN /\ ret' = Err(out.err)
               /\ pc' = "done"
               /\ last_fail' = [stage |-> IF out.err = "timeout" THEN "empty"
                                          ELSE "read",
                                err |-> out.err]
               /\ read_faults' =
                     IF out.err = "timeout" THEN read_faults
                     ELSE read_faults + 1
               /\ UNCHANGED <<m_read_buffer, buffer>>
          ELSE IF out.val = 0
          THEN /\ ret' = Err("timeout")
               /\ pc' = "done"
               /\ last_fail' = [stage |-> "empty", err |-> "timeout"]
               /\ UNCHANGED <<m_read_buffer, buffer, read_faults>>
          ELSE /\ m_read_buffer' =
                     SubSeq(m_read_buffer, out.val + 1, Len(m_read_buffer))
               /\ buffer' =
                     BufWrite(buffer, SubSeq(m_read_buffer, 1, out.val))
               /\ IF Len(BufWrite(buffer, SubSeq(m_read_buffer, 1, out.val)))
                        > MaxFrameSize
                  THEN /\ ret' = Err("frame_too_large")
                       /\ pc' = "done"
                       /\ last_fail' = [stage |-> "overflow",
                                        err |-> "frame_too_large"]
                  ELSE UNCHANGED <<ret, pc, last_fail>>
               /\ UNCHANGED read_faults
    /\ UNCHANGED <<m_is_open, op, frame, total_written, pre_state, pre_open,
                   pre_rx, write_alls, write_fails, textVars, TextFixed>>

TextInit == Init

TextNext ==
    \/ Connect
    \/ ConnectOpen
    \/ Disconnect
    \/ TransportClose
    \/ \E data \in TextInputs : SetResponse(data)
    \/ TextRead
    \/ \E command \in QueryTexts : Query(command)
    \/ TextWrite
    \/ TextLine
    \/ TextReadMore
    \/ Return

\* a Device used through its text interface
TextSpec == TextInit /\ [][TextNext]_vars

TextTypeOK ==
    /\ txt_cmd \in QueryTexts
    /\ txt_reads \in {0, 1}
    /\ Len(txt_written) <= 4
    /\ Len(buffer) <= MaxFrameSize

HbTypeOK ==
    /\ m_strategy \in BOOLEAN
    /\ hb_config \in HbConfigs
    /\ m_running \in BOOLEAN
    /\ m_paused \in BOOLEAN
    /\ m_stop_requested \in BOOLEAN
    /\ m_thread \in 0..MaxWorkers
    /\ m_mutex \in 0..CallerThread
    /\ m_failure_count \in 0..(UINT8_RANGE - 1)
    /\ m_success_count \in 0..(CountMod - 1)
    /\ m_total_failures \in 0..(CountMod - 1)
    /\ hb_cycles \in 0..(CycleMod - 1)
    /\ Len(hb_events) <= 1
    /\ hb_ctl \in {"idle", "stop_join", "pause_cb", "resume_cb", "stop_cb"}
                  \cup CbInside \cup CbBlocked
    /\ hb_tick \in {0, 1}
    /\ hb_cb \in {"none", "stopped", "paused", "resumed"}

\* C20: start() fails with an error when the runner is already running or
\* when no strategy is set; a failed start() spawns no worker and leaves the
\* running and paused flags unchanged, so under any sequence of start, stop,
\* pause and resume calls of one controlling thread the runner has at most
\* one background worker at any time.
C20_StartFailsOneWorker ==
    /\ [](Cardinality({w \in 1..MaxWorkers : hb_pc[w] # "none"}) <= 1)
    /\ [][(hb_tick' # hb_tick /\ hb_op' = "start")
            => /\ (m_running \/ ~m_strategy) => ~hb_ret'.ok
               /\ ~hb_ret'.ok => UNCHANGED <<m_running, m_paused, hb_pc,
                                            m_thread>>]_vars

\* start() has failed on a running, paused runner whose worker is live
C20_Witness ==
    /\ hb_op = "start"
    /\ ~hb_ret.ok
    /\ hb_ret.err.msg = "Heartbeat already running"
    /\ m_running
    /\ m_paused
    /\ Cardinality(LiveWorkers) = 1

\* the runner is running and paused and pause() has returned
PauseReturned == m_running /\ m_paused /\ hb_ctl # "pause_cb"

\* C21: under fair scheduling every stop() call on a running runner returns
\* in the end, and when it returns the worker has left _run_loop and
\* is_running() is false, for every interleaving of stop() with the worker,
\* also when the runner is paused and the worker is about to block or is
\* blocked in its paused wait.
C21_StopReturns ==
    (hb_ctl = "stop_join")
        ~> /\ hb_ctl = "idle"
           /\ hb_op = "stop"
           /\ ~m_running
           /\ \A w \in 1..MaxWorkers : hb_pc[w] = "none"

\* C22: once pause() has returned on a running runner, and until resume() is
\* called, the worker begins no device.execute() probe, for every
\* interleaving of pause() with the worker's loop.
C22_NoProbeWhilePaused ==
    [][\A w \in 1..MaxWorkers :
          (hb_pc[w] = "execute" /\ hb_pc'[w] = "executing")
              => ~PauseReturned]_vars

\* C23: under fair scheduling, after resume() is called on a paused running
\* runner, and no later pause() or stop() occurs, the worker starts another
\* heartbeat cycle in the end, for every interleaving of resume() with the
\* worker entering its paused wait.
C23_ResumeRestarts ==
    (hb_ctl = "resume_cb")
        ~> \/ m_paused
           \/ m_stop_requested
           \/ \E w \in 1..MaxWorkers : hb_pc[w] = "beat"

\* C24: with max_failures = 3, auto_reset_failures = true and every cycle
\* failing, the max_failures event is emitted on exactly every third failed
\* cycle and on no other cycle, and the failure counter is reset to 0 right
\* after each max_failures event.
C24_MaxFailuresEveryThird ==
    (hb_config = [max_failures |-> 3, auto_reset_failures |-> TRUE]
     /\ hb_all_failed)
        => /\ \A w \in 1..MaxWorkers :
                 hb_pc[w] = "emit"
                     => (hb_loc[w].event = "max_failures"
                            <=> hb_cycles % 3 = 0)
           /\ hb_events # <<>>
                 => /\ hb_events[1].event = "max_failures"
                          <=> hb_cycles % 3 = 0
                    /\ hb_events[1].event = "max_failures"
                          => m_failure_count = 0
           /\ Len(hb_events) <= 1

\* the second max_failures event of a run of failures has been emitted: the
\* cycle count is a multiple of CycleMod, and of 3, again
C24_Witness ==
    /\ hb_config = [max_failures |-> 3, auto_reset_failures |-> TRUE]
    /\ hb_all_failed
    /\ hb_cycles = 0
    /\ hb_events = <<[event |-> "max_failures", failure_count |-> 3]>>
    /\ m_failure_count = 0

\* C25: every failed heartbeat cycle increments both the failure counter and
\* the cumulative-failure counter and emits a failure event; on the cycle in
\* which the failure count reaches max_failures, a max_failures event is
\* emitted in addition to that cycle's failure event.
C25_FailureEventEveryFailedCycle ==
    /\ [](\A w \in 1..MaxWorkers :
            (hb_pc[w] = "after_beat" /\ ~hb_loc[w].success)
                => /\ \E i \in 1..Len(hb_events) :
                          hb_events[i].event = "failure"
                   /\ hb_loc[w].failures >= hb_config.max_failures
                          => \E i \in 1..Len(hb_events) :
                                hb_events[i].event = "max_failures")
    /\ [][\A w \in 1..MaxWorkers :
            (hb_pc[w] = "classify" /\ hb_pc'[w] = "emit"
             /\ ~hb_loc[w].success)
                => /\ m_failure_count' = (m_failure_count + 1) % UINT8_RANGE
                   /\ m_total_failures' = (m_total_failures + 1) % CountMod]_vars

\* C26: every read or write of the runner's config, callback and last-error
\* fields, by the worker thread or by any public method, happens while the
\* runner's mutex is held.
C26_AccessesUnderMutex == hb_access.locked

(***************************************************************************)
(* Delays of execute and of a reconnect episode                            *)
(***************************************************************************)

\* the sleeps of this call made by execute's retry loop
RetrySleeps == SelectSeq(sleeps, LAMBDA sl : sl.kind = "retry")

\* the sleeps of this call made by _try_reconnect
ReconnectSleeps == SelectSeq(sleeps, LAMBDA sl : sl.kind = "reconnect")

\* execute() was called on a connected device with a command that encodes
ExecuteWrites ==
    /\ op = "execute"
    /\ pc # "idle"
    /\ pre_state = "connected"
    /\ pre_open
    /\ encode(exec_cmd).ok

\* C27: an execute() on a connected device whose command encodes makes at
\* least one and at most max(1, max_retries) write attempts; it sleeps
\* retry_delay exactly once between two consecutive attempts, so never after
\* the last one, never when retry_delay is 0, and always the same delay
C27_BoundedAttemptsAndRetrySleeps ==
    ExecuteWrites =>
        /\ write_alls >= 1
        /\ write_alls <= Max(1, m_config.max_retries)
        /\ Len(RetrySleeps) =
              (IF m_config.retry_delay = 0 THEN 0 ELSE write_alls - 1)
        /\ \A i \in 1..Len(RetrySleeps) :
              /\ RetrySleeps[i].ms = m_config.retry_delay
              /\ RetrySleeps[i].after = i

\* an execute() that failed for good after three attempts with two sleeps
C27_Witness ==
    /\ ExecuteWrites
    /\ pc = "done"
    /\ ~ret.ok
    /\ m_config.retry_delay = 2
    /\ write_alls = 3
    /\ Len(RetrySleeps) = 2

\* a reconnect episode has begun in this call
InEpisode == events # <<>> /\ events[1].event = "started"

\* the delay the claimed recurrence gives after i failed attempts
RECURSIVE BackoffDelay(_)
BackoffDelay(i) ==
    IF i = 0 THEN m_config.reconnect_delay
    ELSE Min(BackoffDelay(i - 1) * m_config.backoff_multiplier,
             m_config.max_reconnect_delay)

\* the sleeps the claimed recurrence gives for n failed attempts that had a
\* successor
RECURSIVE BackoffSleeps(_)
BackoffSleeps(n) ==
    IF n = 0 THEN <<>>
    ELSE IF BackoffDelay(n - 1) > 0
    THEN Append(BackoffSleeps(n - 1),
                Sleep("reconnect", BackoffDelay(n - 1), n))
    ELSE BackoffSleeps(n - 1)

\* C28: in a reconnect episode the sleeps follow d_0 = reconnect_delay and
\* d_(i+1) = min(d_i * backoff_multiplier, max_reconnect_delay); there is one
\* after each failed attempt that has a successor, none for a delay of 0, and
\* the episode starts from reconnect_delay whatever the delay was at the end
\* of the episode before
C28_BackoffRecurrence ==
    /\ InEpisode =>
          /\ ReconnectSleeps = BackoffSleeps(rc_attempt)
          /\ current_delay = BackoffDelay(rc_attempt)
    /\ ~InEpisode => ReconnectSleeps = <<>>

\* a later episode, begun after the delay had grown to 3, sleeps 1 then 2
C28_Witness ==
    /\ InEpisode
    /\ prev_delay = 3
    /\ m_config.reconnect_delay = 1
    /\ rc_attempt = 2
    /\ ReconnectSleeps = <<Sleep("reconnect", 1, 1), Sleep("reconnect", 2, 2)>>

\* C29 as stated: no sleep of a reconnect episode is longer than
\* max_reconnect_delay
C29_SleepAtMostMax ==
    \A i \in 1..Len(ReconnectSleeps) :
        ReconnectSleeps[i].ms <= m_config.max_reconnect_delay

\* C29: no sleep of a reconnect episode is longer than max_reconnect_delay,
\* except the one after the first failed attempt, which is reconnect_delay
\* even when that is greater
C29_SleepAtMostMaxAfterFirst ==
    \A i \in 1..Len(ReconnectSleeps) :
        \/ ReconnectSleeps[i].ms <= m_config.max_reconnect_delay
        \/ /\ ReconnectSleeps[i].after = 1
           /\ ReconnectSleeps[i].ms = m_config.reconnect_delay

\* an episode whose first sleep is above the limit and whose second is at it
C29_Witness ==
    /\ InEpisode
    /\ Len(ReconnectSleeps) >= 2
    /\ ReconnectSleeps[1].ms > m_config.max_reconnect_delay
    /\ ReconnectSleeps[2].ms = m_config.max_reconnect_delay

(***************************************************************************)
(* How far decode lets the caller advance                                  *)
(***************************************************************************)

\* number of bytes of b that precede its first SOF, all of them if b has none
BytesBeforeSof(b) ==
    IF \E i \in 1..Len(b) : b[i] = SOF
    THEN (CHOOSE i \in 1..Len(b) :
             b[i] = SOF /\ \A j \in 1..(i - 1) : b[j] # SOF) - 1
    ELSE Len(b)

\* the bytes that the decode whose outcome is in c_dec was given
Decoded ==
    IF c_pc = "frame_decoded" THEN SubSeq(c_buf, 1, c_flen) ELSE c_buf

\* C30: decode reports consumed = 0 with incomplete_frame and
\* 1 <= consumed <= buffer length with every other outcome: the number of
\* bytes before the first SOF (the whole buffer if there is none) with
\* invalid_frame, 1 with frame_too_large and checksum_error, the frame length
\* with success; and decode of the first frame_length(buf) bytes of a buffer
\* that holds that many is never incomplete_frame
C30_ConsumedTellsAdvance ==
    /\ c_pc \in {"raw_decoded", "frame_decoded"} =>
          /\ c_dec.res.ok \/ c_dec.res.err \in
                {"incomplete_frame", "invalid_frame", "frame_too_large",
                 "checksum_error"}
          /\ c_dec.res = Err("incomplete_frame") => c_dec.consumed = 0
          /\ c_dec.res # Err("incomplete_frame") =>
                (c_dec.consumed >= 1 /\ c_dec.consumed <= Len(Decoded))
          /\ c_dec.res = Err("invalid_frame") =>
                c_dec.consumed = BytesBeforeSof(Decoded)
          /\ c_dec.res = Err("frame_too_large") => c_dec.consumed = 1
          /\ c_dec.res = Err("checksum_error") => c_dec.consumed = 1
          /\ c_dec.res.ok =>
                c_dec.consumed =
                    HEADER_SIZE + Len(c_dec.res.val.data) + CRC_SIZE
    /\ c_pc = "frame_decoded" => c_dec.res # Err("incomplete_frame")

\* a frame followed by two more bytes: decode of the frame's bytes succeeded
\* and consumed them
C30_Witness ==
    /\ c_pc = "frame_decoded"
    /\ Len(c_buf) = c_flen + 2
    /\ c_dec.res.ok
    /\ c_dec.consumed = c_flen

\* two bytes and then a frame: invalid_frame, consumed 2
C30_WitnessInvalid ==
    /\ c_pc = "raw_decoded"
    /\ c_dec = [res |-> Err("invalid_frame"), consumed |-> 2]
    /\ Len(c_buf) > 7

\* a whole frame larger than the codec accepts: frame_too_large, consumed 1
C30_WitnessTooLarge ==
    /\ c_pc = "frame_decoded"
    /\ c_dec = [res |-> Err("frame_too_large"), consumed |-> 1]

\* a frame with a wrong CRC: checksum_error, consumed 1
C30_WitnessChecksum ==
    /\ c_pc = "raw_decoded"
    /\ c_dec = [res |-> Err("checksum_error"), consumed |-> 1]

(***************************************************************************)
(* A byte other than SOF at the front of the reassembly buffer             *)
(***************************************************************************)

\* _read_response has buffered bytes that begin with a byte other than SOF
StrayFront ==
    /\ op = "execute"
    /\ pc = "read_response"
    /\ buffer # <<>>
    /\ buffer[1] # SOF

C32_BufferScopedToAttempt ==
    /\ [](pc \in {"idle", "write_all", "attempt_failed"} => buffer = <<>>)
    /\ [][pc = "done" /\ pc' = "idle" =>
            buffer' = <<>> /\ m_read_buffer' = m_read_buffer]_vars

\* execute() returns a response while the bytes that came after its frame
\* are in the reassembly buffer and the Transport has nothing more
C32_Witness ==
    /\ op = "execute"
    /\ pc = "done"
    /\ ret.ok
    /\ pre_rx = FrameThenMore
    /\ buffer = <<SOF, 0>>
    /\ m_read_buffer = <<>>

(***************************************************************************)
(* Device state and Transport after an operation                           *)
(***************************************************************************)

\* C33: with a Transport that only the device opens and closes, when no
\* operation is running or one has just finished, state connected implies
\* that the Transport is open, states disconnected and error imply that it is
\* closed, and the state is neither connecting nor reconnecting
C33_StateMatchesTransport ==
    pc \in {"idle", "done"} =>
        /\ m_state = "connected" => m_is_open
        /\ m_state \in {"disconnected", "error"} => ~m_is_open
        /\ m_state \notin {"connecting", "reconnecting"}

\* an execute() on a connected device has ended in a failed reconnect
C33_Witness ==
    /\ op = "execute"
    /\ pc = "done"
    /\ pre_state = "connected"
    /\ pre_open
    /\ m_state = "error"
    /\ ~m_is_open
    /\ opens > 0

\* C34: when connect() or reconnect() returns success, is_connected() is
\* true, also when the Transport has been closed underneath a device whose
\* state is connected
C34_SuccessMeansConnected ==
    (pc = "done" /\ op \in {"connect", "reconnect"} /\ ret.ok) =>
        is_connected

(***************************************************************************)
(* One classification for every heartbeat cycle                            *)
(***************************************************************************)

\* C38: every heartbeat cycle adds one to exactly one of success_count and
\* total_failures and emits exactly one of the events success, failure and
\* max_failures, so success_count + total_failures is the number of cycles
\* (here in the low bits that are kept); a cycle that finds the device not
\* connected is a failure and does not call device.execute()
C38_OneClassificationPerCycle ==
    /\ []((m_success_count + m_total_failures) % CountMod
            = hb_cycles % CountMod)
    /\ [][\A w \in 1..MaxWorkers :
            (hb_pc[w] = "classify" /\ hb_pc'[w] = "emit")
                => \/ /\ m_success_count' = (m_success_count + 1) % CountMod
                      /\ m_total_failures' = m_total_failures
                   \/ /\ m_total_failures' = (m_total_failures + 1) % CountMod
                      /\ m_success_count' = m_success_count]_vars
    /\ [](\A w \in 1..MaxWorkers :
            /\ hb_pc[w] \in {"do_heartbeat", "make_command", "execute",
                              "executing", "classify", "emit"}
                  => hb_events = <<>>
            /\ hb_pc[w] = "after_beat"
                  => /\ Len(hb_events) = 1
                     /\ hb_events[1].event \in
                           {"success", "failure", "max_failures"}
                     /\ hb_events[1].event = "success" <=> hb_loc[w].success
            /\ (hb_pc[w] \in {"classify", "emit", "after_beat"}
                /\ ~hb_loc[w].connected)
                  => ~hb_loc[w].success /\ ~hb_loc[w].executed)

\* a cycle that found the device not connected has emitted its failure event
\* and counted as a failure, after a cycle that succeeded
C38_Witness ==
    \E w \in 1..MaxWorkers :
        /\ hb_pc[w] = "after_beat"
        /\ ~hb_loc[w].connected
        /\ ~hb_loc[w].executed
        /\ hb_events = <<[event |-> "failure", failure_count |-> 1]>>
        /\ ~hb_all_failed
        /\ m_success_count = 1
        /\ m_total_failures = 1

(***************************************************************************)
(* The 8-bit failure count without auto reset                              *)
(***************************************************************************)

\* C39: with auto_reset_failures = false the failure count is not lower
\* after a failed cycle than before it, and a failed cycle that begins with
\* the failure count at max_failures or above emits max_failures
C39_FailureCountNeverDrops ==
    [][\A w \in 1..MaxWorkers :
          (hb_pc[w] = "classify" /\ hb_pc'[w] = "emit"
           /\ ~hb_loc[w].success /\ ~hb_config.auto_reset_failures)
              => /\ m_failure_count' >= m_failure_count
                 /\ m_failure_count >= hb_config.max_failures
                       => hb_loc'[w].event = "max_failures"]_vars

(***************************************************************************)
(* The stopped event                                                       *)
(***************************************************************************)

\* what a stop() that finds the runner not running must leave alone
StopLeaves ==
    <<hbFlags, hb_pc, hb_ctl, m_mutex, hb_access, hbCounters, hbCycle,
      hbFixed>>

\* a stop() returns; if the runner was running it has given one stopped event
\* to the callback, with no thread left in _run_loop, and otherwise it has
\* given none and changed nothing
StoppedAfterJoin ==
    (hb_tick' # hb_tick /\ hb_op' = "stop")
        => IF m_running
           THEN /\ hb_cb' = "stopped"
                /\ \A w \in 1..MaxWorkers : hb_pc'[w] = "none"
           ELSE /\ hb_cb' = "none"
                /\ UNCHANGED StopLeaves

\* the part of C37 that is about order: the stopped event of a stop() comes
\* when no thread is left in _run_loop, and only stop() on a running runner
\* gives one
C37_StoppedComesLast ==
    /\ [][StoppedAfterJoin]_vars
    /\ [](hb_cb = "stopped" => hb_op = "stop")

\* C37: every stop() of a running runner emits exactly one stopped event,
\* after the worker has been joined, so that no success, failure or
\* max_failures event of the run follows it; stop() on a runner that is not
\* running emits nothing and changes nothing
C37_OneStoppedEventPerStop ==
    /\ [][StoppedAfterJoin]_vars
    /\ (hb_ctl = "stop_join") ~> (hb_ctl = "idle" /\ hb_cb = "stopped")

(***************************************************************************)
(* Callbacks that call back into the runner                                *)
(***************************************************************************)

\* C36: a callback that calls a mutex-guarded method of its own runner
\* returns, and the thread that invoked it goes on: the worker reaches the
\* statement after _trigger_callback, and a pause(), resume() or stop() of
\* the controlling thread returns
C36_CallbackReturns ==
    /\ \A w \in 1..MaxWorkers :
          (hb_pc[w] = "callback") ~> (hb_pc[w] = "after_beat")
    /\ (hb_ctl \in CbInside) ~> (hb_ctl = "idle")

\* a thread waits for the mutex it owns
SelfDeadlock ==
    \/ \E w \in 1..MaxWorkers : hb_pc[w] = "relock" /\ m_mutex = w
    \/ hb_ctl \in CbBlocked /\ m_mutex = CallerThread

(***************************************************************************)
(* execute() from two threads                                              *)
(***************************************************************************)

\* C35: when the heartbeat worker and a foreground caller are in execute()
\* on one Device at the same time, every call that succeeds returns the
\* response to its own command
C35_OwnReply ==
    \A t \in Threads :
        (cx_pc[t] = "done" /\ cx_ret[t].ok)
            => cx_ret[t].val = ReplyTo(cx_cmd[t])

(***************************************************************************)
(* The text interface                                                      *)
(***************************************************************************)

\* the bytes the Transport has delivered during the call
Delivered == SubSeq(pre_rx, 1, Len(pre_rx) - Len(m_read_buffer))

\* the bytes of text before its first '\n'
BeforeNewline(text) == SubSeq(text, 1, NewlinePos(text) - 1)

NotCR(c) == c # CR

\* text with every '\r' removed
WithoutCR(text) == SelectSeq(text, NotCR)

\* read() or query() has returned, on a Device that was connected
TextCallDone ==
    /\ op \in {"read", "query"}
    /\ pc = "done"
    /\ WasConnected

\* read() and query() on a Device that is not connected return
\* not_connected and call neither Transport::write nor Transport::read
TextNotConnected ==
    (op \in {"read", "query"} /\ pc = "done" /\ ~WasConnected)
        => /\ ret = Err("not_connected")
           /\ write_alls = 0
           /\ ~read_called
           /\ txt_written = <<>>
           /\ m_read_buffer = pre_rx

\* query(cmd) whose write does not fail has written cmd, with a '\n' after
\* it unless cmd ends with one, and has called read() once
QueryWritesLine ==
    (op = "query" /\ pc \in {"text_read", "done"} /\ WasConnected
     /\ write_fails = 0)
        => /\ txt_written =
                 IF txt_cmd # <<>> /\ txt_cmd[Len(txt_cmd)] = LF
                 THEN txt_cmd
                 ELSE txt_cmd \o <<LF>>
           /\ txt_reads = 1

\* what read() returns is the text before the first '\n' the Transport
\* delivered, without its '\r's; a read of zero bytes ends it with timeout
ReadReturnsLine ==
    /\ (TextCallDone /\ ret.ok)
          => /\ NewlinePos(Delivered) > 0
             /\ ret.val = WithoutCR(BeforeNewline(Delivered))
    /\ (TextCallDone /\ last_fail.stage = "empty") => ret = Err("timeout")

C40_WitnessFull ==
    /\ op = "read"
    /\ pc = "done"
    /\ pre_rx = LineOf(MaxFrameSize)
    /\ ret = Ok(SubSeq(pre_rx, 1, MaxFrameSize - 1))

\* read() has lost the '\n' of a line that is longer than the ring buffer
C40_WitnessLong ==
    /\ op = "read"
    /\ pc = "done"
    /\ pre_rx = LineOf(MaxFrameSize + 1)
    /\ m_read_buffer = <<>>
    /\ ret = Err("timeout")

====
